---------------------------- MODULE Spec2Model ----------------------------
(***************************************************************************)
(* A model of the vers library (github.com/git-pkgs/vers): version         *)
(* comparison, the interval and range algebra, the native-constraint       *)
(* translators and the vers URI engine.                                    *)
(*                                                                         *)
(* A Go string is modelled as a sequence of one-character strings, so that *)
(* splitting, trimming, prefix tests, numeric conversion and byte-wise     *)
(* ordering are computed the way the code computes them: "1.0" is written  *)
(* <<"1", ".", "0">> and the empty string is << >>.                        *)
(*                                                                         *)
(* Intermediate values that the code keeps in a local variable and reads   *)
(* several times are passed as operator parameters.                        *)
(***************************************************************************)
EXTENDS Integers, Sequences, FiniteSets, TLC

(***************************************************************************)
(* Strings                                                                 *)
(***************************************************************************)

\* The printable ASCII characters in byte order; Ascii[i] has byte value i + 31
\* (byte 96 is named, not written: the model's strings never hold it).
Ascii ==
  <<" ", "!", "\"", "#", "$", "%", "&", "'", "(", ")", "*", "+", ",", "-", ".", "/",
    "0", "1", "2", "3", "4", "5", "6", "7", "8", "9", ":", ";", "<", "=", ">", "?",
    "@", "A", "B", "C", "D", "E", "F", "G", "H", "I", "J", "K", "L", "M", "N", "O",
    "P", "Q", "R", "S", "T", "U", "V", "W", "X", "Y", "Z", "[", "\\", "]", "^", "_",
    "(backtick)", "a", "b", "c", "d", "e", "f", "g", "h", "i", "j", "k", "l", "m", "n", "o",
    "p", "q", "r", "s", "t", "u", "v", "w", "x", "y", "z", "{", "|", "}", "~">>

\* c comes before d in the byte order given by the table.
Before(table, c, d) ==
  \E i \in DOMAIN table : table[i] = c /\ \E j \in (i + 1)..Len(table) : table[j] = d

\* c < d on bytes.
ByteLess(c, d) == Before(Ascii, c, d)

DigitChars == <<"0", "1", "2", "3", "4", "5", "6", "7", "8", "9">>

Digits == {DigitChars[i] : i \in DOMAIN DigitChars}

IsDigit(c) == c \in Digits

\* The value of a digit character.
DigitVal(c) == (CHOOSE i \in DOMAIN DigitChars : DigitChars[i] = c) - 1

\* s[from..] as Go's s[from-1:] (1-based here).
Drop(s, n) == SubSeq(s, n + 1, Len(s))

Take(s, n) == SubSeq(s, 1, n)

\* a < b on Go strings: byte-wise lexicographic, a proper prefix is smaller.
RECURSIVE StrLess(_, _)
StrLess(a, b) ==
  IF b = << >> THEN FALSE
  ELSE IF a = << >> THEN TRUE
  ELSE IF Head(a) = Head(b) THEN StrLess(Tail(a), Tail(b))
  ELSE ByteLess(Head(a), Head(b))

\* strings.HasPrefix
HasPrefix(s, p) == Len(s) >= Len(p) /\ Take(s, Len(p)) = p

\* strings.HasSuffix
HasSuffix(s, p) == Len(s) >= Len(p) /\ Drop(s, Len(s) - Len(p)) = p

\* strings.Index: the 1-based position of the first occurrence of sub in s, 0 if none.
RECURSIVE IndexFrom(_, _, _)
IndexFrom(s, sub, i) ==
  IF i + Len(sub) - 1 > Len(s) THEN 0
  ELSE IF SubSeq(s, i, i + Len(sub) - 1) = sub THEN i
  ELSE IndexFrom(s, sub, i + 1)

IndexOf(s, sub) == IndexFrom(s, sub, 1)

\* strings.Contains
StrContains(s, sub) == IndexOf(s, sub) > 0

\* s cut at an occurrence of sep at position i: what is before and what is after.
CutAt(s, sep, i) == <<Take(s, i - 1), Drop(s, i + Len(sep) - 1)>>

\* strings.Split(s, sep) for a non-empty separator: always at least one part.
RECURSIVE StrSplit(_, _)
RECURSIVE SplitRest(_, _, _)
SplitRest(s, sep, i) ==
  IF i = 0 THEN <<s>> ELSE <<Take(s, i - 1)>> \o StrSplit(Drop(s, i + Len(sep) - 1), sep)

StrSplit(s, sep) == SplitRest(s, sep, IndexOf(s, sep))

\* strings.SplitN(s, sep, 2)
SplitFirst(s, sep, i) == IF i = 0 THEN <<s>> ELSE CutAt(s, sep, i)

StrSplit2(s, sep) == SplitFirst(s, sep, IndexOf(s, sep))

\* strings.Join
RECURSIVE StrJoin(_, _)
StrJoin(parts, sep) ==
  IF parts = << >> THEN << >>
  ELSE IF Len(parts) = 1 THEN parts[1]
  ELSE parts[1] \o sep \o StrJoin(Tail(parts), sep)

\* strings.TrimSpace (of the white space the model's alphabet has: the blank).
RECURSIVE TrimLeft(_)
TrimLeft(s) == IF s # << >> /\ Head(s) = " " THEN TrimLeft(Tail(s)) ELSE s

RECURSIVE TrimRight(_)
TrimRight(s) ==
  IF s # << >> /\ s[Len(s)] = " " THEN TrimRight(Take(s, Len(s) - 1)) ELSE s

TrimSpace(s) == TrimRight(TrimLeft(s))

\* The value of a string of digits.
RECURSIVE NatOf(_)
NatOf(s) ==
  IF s = << >> THEN 0 ELSE 10 * NatOf(Take(s, Len(s) - 1)) + DigitVal(s[Len(s)])

AllDigits(s) == \A i \in DOMAIN s : IsDigit(s[i])

\* strconv.Atoi: an optional sign and digits; n is 0 on a syntax error (the
\* model's numbers stay far below the range of int).
Atoi(s) ==
  LET body == IF s # << >> /\ s[1] \in {"+", "-"} THEN Tail(s) ELSE s
  IN IF body = << >> \/ ~AllDigits(body) THEN [ok |-> FALSE, n |-> 0]
     ELSE [ok |-> TRUE, n |-> (IF s[1] = "-" THEN -1 ELSE 1) * NatOf(body)]

\* fmt.Sprintf("%d", n) for n >= 0
RECURSIVE NatStr(_)
NatStr(n) ==
  IF n < 10 THEN <<DigitChars[n + 1]>> ELSE NatStr(n \div 10) \o <<DigitChars[(n % 10) + 1]>>

Itoa(n) == IF n < 0 THEN <<"-">> \o NatStr(0 - n) ELSE NatStr(n)

\* The length of the longest prefix of digits (a greedy \d*).
RECURSIVE DigitPrefixLen(_)
DigitPrefixLen(s) ==
  IF s # << >> /\ IsDigit(Head(s)) THEN 1 + DigitPrefixLen(Tail(s)) ELSE 0

\* The length of the longest prefix without the character c (a greedy [^c]*).
RECURSIVE PrefixWithout(_, _)
PrefixWithout(s, c) ==
  IF s # << >> /\ Head(s) # c THEN 1 + PrefixWithout(Tail(s), c) ELSE 0

(***************************************************************************)
(* VersionModel: parsing and the generic comparison                        *)
(***************************************************************************)

\* A regular-expression match in progress: the groups captured so far and
\* the unread rest of the input.
Capture(m, k, n) ==
  [m EXCEPT !.g[k] = SubSeq(m.rest, 2, n + 1), !.rest = Drop(m.rest, n + 1)]

\* ^(\d+)
SemVerMajor(s) ==
  LET n == DigitPrefixLen(s)
  IN [ok |-> n > 0, g |-> <<Take(s, n), << >>, << >>, << >>, << >>>>, rest |-> Drop(s, n)]

\* (?:\.(\d+))? as group k
SemVerDot(m, k) ==
  IF Len(m.rest) >= 2 /\ m.rest[1] = "." /\ IsDigit(m.rest[2])
  THEN Capture(m, k, DigitPrefixLen(Tail(m.rest)))
  ELSE m

\* (?:-([^+]+))?
SemVerPrerelease(m) ==
  IF Len(m.rest) >= 2 /\ m.rest[1] = "-" /\ m.rest[2] # "+"
  THEN Capture(m, 4, PrefixWithout(Tail(m.rest), "+"))
  ELSE m

\* (?:\+(.+))?$
SemVerBuild(m) ==
  IF Len(m.rest) >= 2 /\ m.rest[1] = "+"
  THEN [m EXCEPT !.g[5] = Tail(m.rest), !.rest = << >>]
  ELSE m

SemVerEnd(m) == [matched |-> m.ok /\ m.rest = << >>, g |-> m.g]

\* SemanticVersionRegex: ^(\d+)(?:\.(\d+))?(?:\.(\d+))?(?:-([^+]+))?(?:\+(.+))?$
\* Every quantifier has one way to match, so the match is found left to right.
SemanticVersionRegex(s) ==
  SemVerEnd(SemVerBuild(SemVerPrerelease(SemVerDot(SemVerDot(SemVerMajor(s), 2), 3))))

\* simpleNumericRegex: ^\d+$
simpleNumericRegex(s) == s # << >> /\ AllDigits(s)

VersionInfo(major, minor, patch, prerelease, build, original) ==
  [err |-> FALSE, Major |-> major, Minor |-> minor, Patch |-> patch,
   Prerelease |-> prerelease, Build |-> build, Original |-> original]

\* ParseVersion's error return.
InvalidVersion(s) ==
  [err |-> TRUE, Major |-> 0, Minor |-> 0, Patch |-> 0,
   Prerelease |-> << >>, Build |-> << >>, Original |-> s]

\* The "semantic version parsing" branch of ParseVersion on its submatches.
ParseSemantic(s, g) ==
  LET num(k) == IF g[k] # << >> THEN Atoi(g[k]).n ELSE 0
  IN VersionInfo(num(1), num(2), num(3), g[4], g[5], s)

\* The "dot-separated versions" branch of ParseVersion; patchParts is the third
\* part split at its first dash (one part when it has none).
ParseDotted(s, parts, patchParts) ==
  LET minor == IF Len(parts) >= 2 /\ ~StrContains(parts[2], <<"-">>)
               THEN Atoi(parts[2]).n ELSE 0
      patch == IF Len(parts) >= 3 THEN Atoi(patchParts[1]).n ELSE 0
      pre == IF Len(parts) >= 3 /\ Len(patchParts) > 1 THEN patchParts[2] ELSE << >>
  IN VersionInfo(Atoi(parts[1]).n, minor, patch,
                 IF Len(parts) > 3 /\ pre = << >> THEN StrJoin(Drop(parts, 3), <<".">>)
                 ELSE pre,
                 << >>, s)

\* The "dash-separated versions" branch of ParseVersion.
ParseDashed(s, parts) ==
  VersionInfo(Atoi(parts[1]).n, 0, 0, IF Len(parts) > 1 THEN parts[2] ELSE << >>, << >>, s)

\* ParseVersion after the two regular expressions: matches is the result of
\* SemanticVersionRegex, parts is s split at its dots.
ParseOther(s, matches, parts) ==
  IF matches.matched THEN ParseSemantic(s, matches.g)
  ELSE IF Len(parts) > 1
       THEN ParseDotted(s, parts,
                        IF Len(parts) >= 3 THEN StrSplit2(parts[3], <<"-">>) ELSE << >>)
  ELSE IF StrContains(s, <<"-">>) THEN ParseDashed(s, StrSplit2(s, <<"-">>))
  ELSE InvalidVersion(s)

\* ParseVersion without its memoization: what a fresh parse of s produces.
ParseVersion(s) ==
  IF s = << >> THEN InvalidVersion(s)
  ELSE IF simpleNumericRegex(s) THEN VersionInfo(Atoi(s).n, 0, 0, << >>, << >>, s)
  ELSE ParseOther(s, SemanticVersionRegex(s), StrSplit(s, <<".">>))

\* VersionInfo.String
VersionString(v) ==
  Itoa(v.Major) \o <<".">> \o Itoa(v.Minor) \o <<".">> \o Itoa(v.Patch)
    \o (IF v.Prerelease # << >> THEN <<"-">> \o v.Prerelease ELSE << >>)

\* One round of the loop of comparePrerelease on the segments partA and partB
\* with their conversions numA and numB: -1 or 1 when the round returns, 0
\* when the loop goes on.
comparePart(partA, partB, numA, numB) ==
  IF partA = << >> THEN -1
  ELSE IF partB = << >> THEN 1
  ELSE IF numA.ok /\ numB.ok
       THEN (IF numA.n < numB.n THEN -1 ELSE IF numA.n > numB.n THEN 1 ELSE 0)
  ELSE IF partA = partB THEN 0
  ELSE IF StrLess(partA, partB) THEN -1 ELSE 1

\* The loop of comparePrerelease from segment i on.
RECURSIVE comparePrereleaseFrom(_, _, _)
RECURSIVE comparePrereleaseNext(_, _, _, _)
comparePrereleaseNext(partsA, partsB, i, c) ==
  IF c # 0 THEN c ELSE comparePrereleaseFrom(partsA, partsB, i + 1)

comparePrereleaseFrom(partsA, partsB, i) ==
  LET part(parts) == IF i <= Len(parts) THEN parts[i] ELSE << >>
      nums == [k \in 1..2 |-> Atoi(part(<<partsA, partsB>>[k]))]
  IN IF i > Len(partsA) /\ i > Len(partsB) THEN 0
     ELSE comparePrereleaseNext(partsA, partsB, i,
            comparePart(part(partsA), part(partsB), nums[1], nums[2]))

comparePrerelease(a, b) ==
  comparePrereleaseFrom(StrSplit(a, <<".">>), StrSplit(b, <<".">>), 1)

\* VersionInfo.Compare
VersionCompare(v, other) ==
  IF v.Major < other.Major THEN -1
  ELSE IF v.Major > other.Major THEN 1
  ELSE IF v.Minor < other.Minor THEN -1
  ELSE IF v.Minor > other.Minor THEN 1
  ELSE IF v.Patch < other.Patch THEN -1
  ELSE IF v.Patch > other.Patch THEN 1
  ELSE IF v.Prerelease = << >> /\ other.Prerelease # << >> THEN 1
  ELSE IF v.Prerelease # << >> /\ other.Prerelease = << >> THEN -1
  ELSE IF v.Prerelease = << >> /\ other.Prerelease = << >> THEN 0
  ELSE comparePrerelease(v.Prerelease, other.Prerelease)

\* CompareVersions on the parsed operands va and vb.
compareParsed(a, b, va, vb) ==
  IF va.err /\ vb.err THEN (IF StrLess(a, b) THEN -1 ELSE 1)
  ELSE IF va.err THEN -1
  ELSE IF vb.err THEN 1
  ELSE VersionCompare(va, vb)

\* ParseVersion applied to each string of a list.
ParseEach(versions) == [k \in DOMAIN versions |-> ParseVersion(versions[k])]

CompareVersions(a, b) ==
  IF a = b THEN 0
  ELSE IF a = << >> THEN -1
  ELSE IF b = << >> THEN 1
  ELSE LET parsed == ParseEach(<<a, b>>)
       IN compareParsed(a, b, parsed[1], parsed[2])

(***************************************************************************)
(* Interval                                                                *)
(***************************************************************************)

\* A Go Interval value; an absent bound is the empty string.
NewInterval(min, max, minInclusive, maxInclusive) ==
  [Min |-> min, Max |-> max, MinInclusive |-> minInclusive, MaxInclusive |-> maxInclusive]

EmptyInterval == NewInterval(<<"1">>, <<"0">>, TRUE, TRUE)

UnboundedInterval == NewInterval(<< >>, << >>, FALSE, FALSE)

ExactInterval(version) == NewInterval(version, version, TRUE, TRUE)

GreaterThanInterval(version, inclusive) == NewInterval(version, << >>, inclusive, FALSE)

LessThanInterval(version, inclusive) == NewInterval(<< >>, version, FALSE, inclusive)

IntervalIsEmpty(i) ==
  LET empty(cmp) == cmp > 0 \/ (cmp = 0 /\ (~i.MinInclusive \/ ~i.MaxInclusive))
  IN i.Min # << >> /\ i.Max # << >> /\ empty(CompareVersions(i.Min, i.Max))

\* i.IsEmpty() || other.IsEmpty()
EitherIsEmpty(i, other) == \E x \in {i, other} : IntervalIsEmpty(x)

IntervalIsUnbounded(i) == i.Min = << >> /\ i.Max = << >>

\* A variant of the minimum check that takes every minimum as inclusive.
BelowMinInclusive(i, version) == i.Min # << >> /\ CompareVersions(version, i.Min) < 0

\* The "check minimum bound" step of Interval.Contains: TRUE when it rejects.
BelowMin(i, version) ==
  LET below(cmp) == IF i.MinInclusive THEN cmp < 0 ELSE cmp <= 0
  IN i.Min # << >> /\ below(CompareVersions(version, i.Min))

\* The "check maximum bound" step of Interval.Contains: TRUE when it rejects.
AboveMax(i, version) ==
  LET above(cmp) == IF i.MaxInclusive THEN cmp > 0 ELSE cmp >= 0
  IN i.Max # << >> /\ above(CompareVersions(version, i.Max))

IntervalContains(i, version) ==
  IF IntervalIsEmpty(i) THEN FALSE
  ELSE IF IntervalIsUnbounded(i) THEN TRUE
  ELSE IF BelowMin(i, version) THEN FALSE
  ELSE IF AboveMax(i, version) THEN FALSE
  ELSE TRUE

\* The new minimum of Interval.Intersect, as <<Min, MinInclusive>>.
IntersectMin(i, other) ==
  LET pick(cmp) == IF cmp > 0 THEN <<i.Min, i.MinInclusive>>
                   ELSE IF cmp < 0 THEN <<other.Min, other.MinInclusive>>
                   ELSE <<i.Min, i.MinInclusive /\ other.MinInclusive>>
  IN IF i.Min # << >> /\ other.Min # << >> THEN pick(CompareVersions(i.Min, other.Min))
     ELSE IF i.Min # << >> THEN <<i.Min, i.MinInclusive>>
     ELSE IF other.Min # << >> THEN <<other.Min, other.MinInclusive>>
     ELSE <<<< >>, FALSE>>

\* The new maximum of Interval.Intersect, as <<Max, MaxInclusive>>.
IntersectMax(i, other) ==
  LET pick(cmp) == IF cmp < 0 THEN <<i.Max, i.MaxInclusive>>
                   ELSE IF cmp > 0 THEN <<other.Max, other.MaxInclusive>>
                   ELSE <<i.Max, i.MaxInclusive /\ other.MaxInclusive>>
  IN IF i.Max # << >> /\ other.Max # << >> THEN pick(CompareVersions(i.Max, other.Max))
     ELSE IF i.Max # << >> THEN <<i.Max, i.MaxInclusive>>
     ELSE IF other.Max # << >> THEN <<other.Max, other.MaxInclusive>>
     ELSE <<<< >>, FALSE>>

\* An Interval from a minimum and a maximum given as <<bound, inclusive>>.
FromBounds(lo, hi) == NewInterval(lo[1], hi[1], lo[2], hi[2])

IntervalIntersect(i, other) ==
  IF EitherIsEmpty(i, other) THEN EmptyInterval
  ELSE FromBounds(IntersectMin(i, other), IntersectMax(i, other))

IntervalOverlaps(i, other) ==
  IF EitherIsEmpty(i, other) THEN FALSE
  ELSE ~IntervalIsEmpty(IntervalIntersect(i, other))

IntervalAdjacent(i, other) ==
  IF EitherIsEmpty(i, other) THEN FALSE
  ELSE IF i.Max # << >> /\ other.Min # << >> /\ CompareVersions(i.Max, other.Min) = 0
       THEN (i.MaxInclusive /\ ~other.MinInclusive) \/ (~i.MaxInclusive /\ other.MinInclusive)
  ELSE IF i.Min # << >> /\ other.Max # << >> /\ CompareVersions(i.Min, other.Max) = 0
       THEN (i.MinInclusive /\ ~other.MaxInclusive) \/ (~i.MinInclusive /\ other.MaxInclusive)
  ELSE FALSE

\* The new minimum of Interval.Union, as <<Min, MinInclusive>>.
UnionMin(i, other) ==
  LET pick(cmp) == IF cmp < 0 THEN <<i.Min, i.MinInclusive>>
                   ELSE IF cmp > 0 THEN <<other.Min, other.MinInclusive>>
                   ELSE <<i.Min, i.MinInclusive \/ other.MinInclusive>>
  IN IF i.Min = << >> \/ other.Min = << >> THEN <<<< >>, FALSE>>
     ELSE pick(CompareVersions(i.Min, other.Min))

\* The new maximum of Interval.Union, as <<Max, MaxInclusive>>.
UnionMax(i, other) ==
  LET pick(cmp) == IF cmp > 0 THEN <<i.Max, i.MaxInclusive>>
                   ELSE IF cmp < 0 THEN <<other.Max, other.MaxInclusive>>
                   ELSE <<i.Max, i.MaxInclusive \/ other.MaxInclusive>>
  IN IF i.Max = << >> \/ other.Max = << >> THEN <<<< >>, FALSE>>
     ELSE pick(CompareVersions(i.Max, other.Max))

\* Interval.Union once neither operand is empty: nil is TRUE when the
\* intervals cannot be merged.
UnionNonEmpty(i, other) ==
  IF ~IntervalOverlaps(i, other) /\ ~IntervalAdjacent(i, other)
  THEN [nil |-> TRUE, iv |-> UnboundedInterval]
  ELSE [nil |-> FALSE, iv |-> FromBounds(UnionMin(i, other), UnionMax(i, other))]

\* Interval.Union: an empty operand makes it return the other operand.
IntervalUnion(i, other) ==
  LET union(empty) == IF empty[1] THEN [nil |-> FALSE, iv |-> other]
                      ELSE IF empty[2] THEN [nil |-> FALSE, iv |-> i]
                      ELSE UnionNonEmpty(i, other)
  IN union([k \in 1..2 |-> IntervalIsEmpty(<<i, other>>[k])])

(***************************************************************************)
(* Range                                                                   *)
(***************************************************************************)

\* A Go Range value: a list of intervals and a list of excluded versions.
MkRange(intervals, exclusions) == [Intervals |-> intervals, Exclusions |-> exclusions]

NewRange(intervals) == MkRange(intervals, << >>)

\* The inner loop of mergeIntervals: merge interval into the first entry of
\* result, from position k on, that it can be united with, else append it.
RECURSIVE mergeOne(_, _, _)
mergeOne(result, interval, k) ==
  LET merge(union) == IF ~union.nil THEN [result EXCEPT ![k] = union.iv]
                      ELSE mergeOne(result, interval, k + 1)
  IN IF k > Len(result) THEN Append(result, interval)
     ELSE merge(IntervalUnion(result[k], interval))

\* The outer loop of mergeIntervals.
RECURSIVE mergeLoop(_, _)
mergeLoop(intervals, result) ==
  IF intervals = << >> THEN result
  ELSE IF IntervalIsEmpty(Head(intervals)) THEN mergeLoop(Tail(intervals), result)
  ELSE mergeLoop(Tail(intervals), mergeOne(result, Head(intervals), 1))

mergeIntervals(intervals) ==
  IF Len(intervals) <= 1 THEN intervals ELSE mergeLoop(intervals, << >>)

\* A variant of the exclusion loop that looks for the version's own string.
ExcludedAsWritten(exclusions, version, k) ==
  \E j \in k..Len(exclusions) : exclusions[j] = version

\* The exclusion loop of Range.Contains from position k on: TRUE when an
\* exclusion compares equal to version.
RECURSIVE Excluded(_, _, _)
Excluded(exclusions, version, k) ==
  IF k > Len(exclusions) THEN FALSE
  ELSE IF CompareVersions(version, exclusions[k]) = 0 THEN TRUE
  ELSE Excluded(exclusions, version, k + 1)

\* The interval loop of Range.Contains from position k on.
RECURSIVE InSomeInterval(_, _, _)
InSomeInterval(intervals, version, k) ==
  IF k > Len(intervals) THEN FALSE
  ELSE IF IntervalContains(intervals[k], version) THEN TRUE
  ELSE InSomeInterval(intervals, version, k + 1)

RangeContains(r, version) ==
  IF Excluded(r.Exclusions, version, 1) THEN FALSE
  ELSE InSomeInterval(r.Intervals, version, 1)

RangeIsEmpty(r) ==
  IF Len(r.Intervals) = 0 THEN TRUE
  ELSE \A k \in DOMAIN r.Intervals : IntervalIsEmpty(r.Intervals[k])

RangeIsUnbounded(r) ==
  IF Len(r.Exclusions) > 0 THEN FALSE
  ELSE \E k \in DOMAIN r.Intervals : IntervalIsUnbounded(r.Intervals[k])

\* A variant of the exclusions of Range.Union that keeps all those of r.
UnionExclusionsOfReceiver(r, other) == r.Exclusions

\* The exclusions Range.Union keeps: those of r that other lists too (by ==).
UnionExclusions(r, other) ==
  SelectSeq(r.Exclusions, LAMBDA e : \E j \in DOMAIN other.Exclusions : other.Exclusions[j] = e)

\* The Range that Range.Union allocates when neither operand is empty.
UnionNew(r, other) ==
  MkRange(mergeIntervals(r.Intervals \o other.Intervals), UnionExclusions(r, other))

\* The nested loops of Range.Intersect: every interval of r with every one of other.
RECURSIVE IntersectRow(_, _)
IntersectRow(i1, others) ==
  LET keep(intersection) == IF ~IntervalIsEmpty(intersection) THEN <<intersection>> ELSE << >>
  IN IF others = << >> THEN << >>
     ELSE keep(IntervalIntersect(i1, Head(others))) \o IntersectRow(i1, Tail(others))

RECURSIVE IntersectPairs(_, _)
IntersectPairs(intervals, others) ==
  IF intervals = << >> THEN << >>
  ELSE IntersectRow(Head(intervals), others) \o IntersectPairs(Tail(intervals), others)

\* The exclusions Range.Intersect keeps: r's, then other's not yet listed.
RECURSIVE AppendMissing(_, _)
AppendMissing(exclusions, more) ==
  IF more = << >> THEN exclusions
  ELSE IF \E k \in DOMAIN exclusions : exclusions[k] = Head(more)
       THEN AppendMissing(exclusions, Tail(more))
  ELSE AppendMissing(Append(exclusions, Head(more)), Tail(more))

\* r.IsEmpty() for each Range of a list.
EmptyEach(ranges) == [k \in DOMAIN ranges |-> RangeIsEmpty(ranges[k])]

\* Range.Intersect as a value (it always allocates its result).
IntersectValue(r, other) ==
  IF \E x \in {r, other} : RangeIsEmpty(x) THEN MkRange(<< >>, << >>)
  ELSE MkRange(mergeIntervals(IntersectPairs(r.Intervals, other.Intervals)),
               AppendMissing(r.Exclusions, other.Exclusions))

\* Range.Union as a value: an empty operand makes it return the other operand.
UnionValue(r, other) ==
  LET union(empty) == IF empty[1] THEN other ELSE IF empty[2] THEN r ELSE UnionNew(r, other)
  IN union(EmptyEach(<<r, other>>))

\* Range.Exclude as a value.
ExcludeValue(r, version) == MkRange(r.Intervals, Append(r.Exclusions, version))

Exact(version) == NewRange(<<ExactInterval(version)>>)

GreaterThan(version, inclusive) == NewRange(<<GreaterThanInterval(version, inclusive)>>)

LessThan(version, inclusive) == NewRange(<<LessThanInterval(version, inclusive)>>)

Unbounded == NewRange(<<UnboundedInterval>>)

Empty == NewRange(<<EmptyInterval>>)

(***************************************************************************)
(* Constraint                                                              *)
(***************************************************************************)

\* Scheme names.
Npm == <<"n", "p", "m">>

Pypi == <<"p", "y", "p", "i">>

Maven == <<"m", "a", "v", "e", "n">>

Nuget == <<"n", "u", "g", "e", "t">>

Rpm == <<"r", "p", "m">>

Cargo == <<"c", "a", "r", "g", "o">>

Golang == <<"g", "o", "l", "a", "n", "g">>

Go == <<"g", "o">>

\* Operators.
OpEq == <<"=">>

OpNe == <<"!", "=">>

OpLt == <<"<">>

OpLe == <<"<", "=">>

OpGt == <<">">>

OpGe == <<">", "=">>

\* operatorRegex: ^(!=|>=|<=|[<>=]): the operator at the head of s, << >>
\* when the expression does not match.
operatorRegex(s) ==
  IF \E op \in {OpNe, OpGe, OpLe} : HasPrefix(s, op) THEN Take(s, 2)
  ELSE IF s # << >> /\ <<s[1]>> \in {OpLt, OpGt, OpEq} THEN Take(s, 1)
  ELSE << >>

\* A *Constraint, or the error return of the constraint parser.
Constraint(operator, version) == [err |-> FALSE, Operator |-> operator, Version |-> version]

ConstraintError == [err |-> TRUE, Operator |-> << >>, Version |-> << >>]

stripVPrefix(version) ==
  IF Len(version) > 1 /\ version[1] \in {"v", "V"} THEN Tail(version) ELSE version

\* parseConstraintWithScheme on the trimmed string s, given the operator
\* that operatorRegex found and the version text after it.
constraintFrom(s, operator, version, preserveVPrefix) ==
  IF operator # << >>
  THEN IF version = << >> THEN ConstraintError
       ELSE Constraint(operator, IF preserveVPrefix THEN version ELSE stripVPrefix(version))
  ELSE Constraint(OpEq, IF preserveVPrefix THEN s ELSE stripVPrefix(s))

parseConstraintWithScheme(s, scheme) ==
  LET afterOperator(t, operator) ==
        constraintFrom(t, operator, TrimSpace(Drop(t, Len(operator))),
                       scheme = Go \/ scheme = Golang)
      trimmed(t) == IF t = << >> THEN ConstraintError ELSE afterOperator(t, operatorRegex(t))
  IN trimmed(TrimSpace(s))

ParseConstraint(s) == parseConstraintWithScheme(s, << >>)

\* Constraint.ToInterval: the interval and the ok flag.
ToInterval(c) ==
  IF c.Operator = OpEq THEN [ok |-> TRUE, iv |-> ExactInterval(c.Version)]
  ELSE IF c.Operator = OpGt THEN [ok |-> TRUE, iv |-> GreaterThanInterval(c.Version, FALSE)]
  ELSE IF c.Operator = OpGe THEN [ok |-> TRUE, iv |-> GreaterThanInterval(c.Version, TRUE)]
  ELSE IF c.Operator = OpLt THEN [ok |-> TRUE, iv |-> LessThanInterval(c.Version, FALSE)]
  ELSE IF c.Operator = OpLe THEN [ok |-> TRUE, iv |-> LessThanInterval(c.Version, TRUE)]
  ELSE [ok |-> FALSE, iv |-> NewInterval(<< >>, << >>, FALSE, FALSE)]

IsExclusion(c) == c.Operator = OpNe

(***************************************************************************)
(* Parser: the vers URI engine                                             *)
(***************************************************************************)

\* The result of a parser: a Range, or an error.
Parsed(r) == [err |-> FALSE, range |-> r]

ParseError == [err |-> TRUE, range |-> MkRange(<< >>, << >>)]

\* The loop of intersectConsecutiveIntervals from position i on.
RECURSIVE pairFrom(_, _)
RECURSIVE pairOrKeep(_, _, _)
pairOrKeep(intervals, i, intersection) ==
  IF ~IntervalIsEmpty(intersection) THEN <<intersection>> \o pairFrom(intervals, i + 2)
  ELSE <<intervals[i]>> \o pairFrom(intervals, i + 1)

pairFrom(intervals, i) ==
  LET opposite(current, next) ==
        \/ current.Min # << >> /\ current.Max = << >> /\ next.Max # << >> /\ next.Min = << >>
        \/ current.Max # << >> /\ current.Min = << >> /\ next.Min # << >> /\ next.Max = << >>
  IN IF i > Len(intervals) THEN << >>
     ELSE IF i + 1 <= Len(intervals) /\ opposite(intervals[i], intervals[i + 1])
          THEN pairOrKeep(intervals, i, IntervalIntersect(intervals[i], intervals[i + 1]))
     ELSE <<intervals[i]>> \o pairFrom(intervals, i + 1)

\* A variant of intersectConsecutiveIntervals that pairs no intervals.
keepEveryInterval(intervals) ==
  [nil |-> Len(intervals) = 0, range |-> NewRange(intervals)]

\* intersectConsecutiveIntervals: nil is TRUE for the nil *Range.
intersectConsecutiveIntervals(intervals) ==
  IF Len(intervals) = 0 THEN [nil |-> TRUE, range |-> MkRange(<< >>, << >>)]
  ELSE IF Len(intervals) = 1 THEN [nil |-> FALSE, range |-> NewRange(intervals)]
  ELSE [nil |-> FALSE, range |-> NewRange(pairFrom(intervals, 1))]

\* The loop body of parseConstraints for a parsed constraint c.
addConstraint(acc, c) ==
  IF c.err THEN [acc EXCEPT !.err = TRUE]
  ELSE IF IsExclusion(c) THEN [acc EXCEPT !.exclusions = Append(@, c.Version)]
  ELSE IF ToInterval(c).ok THEN [acc EXCEPT !.intervals = Append(@, ToInterval(c).iv)]
  ELSE acc

\* The loop of parseConstraints over the parts not yet read.
RECURSIVE collectConstraints(_, _, _)
collectConstraints(parts, scheme, acc) ==
  IF parts = << >> \/ acc.err THEN acc
  ELSE IF TrimSpace(Head(parts)) = << >> THEN collectConstraints(Tail(parts), scheme, acc)
  ELSE collectConstraints(Tail(parts), scheme,
                          addConstraint(acc, parseConstraintWithScheme(Head(parts), scheme)))

\* The end of parseConstraints: the range of the collected intervals, or the
\* unbounded or the zero Range when there are none, with the exclusions.
collectedRange(result, exclusions) ==
  IF result.nil
  THEN MkRange(IF Len(exclusions) > 0 THEN Unbounded.Intervals ELSE << >>, exclusions)
  ELSE MkRange(result.range.Intervals, exclusions)

parseConstraints(constraintsStr, scheme) ==
  LET finish(acc) ==
        IF acc.err THEN ParseError
        ELSE Parsed(collectedRange(intersectConsecutiveIntervals(acc.intervals), acc.exclusions))
  IN finish(collectConstraints(StrSplit(constraintsStr, <<"|">>), scheme,
                               [err |-> FALSE, intervals |-> << >>, exclusions |-> << >>]))

VersPrefix == <<"v", "e", "r", "s", ":">>

\* versURIMatch with a scheme that may be empty.
versURIMatchAnyScheme(s, slash) ==
  [matched |-> HasPrefix(s, VersPrefix) /\ slash > 0,
   scheme |-> SubSeq(s, Len(VersPrefix) + 1, Len(VersPrefix) + slash - 1),
   constraints |-> Drop(s, Len(VersPrefix) + slash)]

\* versURIRegex: ^vers:([^/]+)/(.*)$ on s, given the position of the first
\* slash after the prefix (0 when there is none).
versURIMatch(s, slash) ==
  [matched |-> HasPrefix(s, VersPrefix) /\ slash > 1,
   scheme |-> SubSeq(s, Len(VersPrefix) + 1, Len(VersPrefix) + slash - 1),
   constraints |-> Drop(s, Len(VersPrefix) + slash)]

versURIRegex(s) == versURIMatch(s, IndexOf(Drop(s, Len(VersPrefix)), <<"/">>))

\* Parser.Parse
Parse(versURI) ==
  LET parse(matches) ==
        IF ~matches.matched THEN ParseError
        ELSE IF matches.constraints = <<"*">> \/ matches.constraints = << >>
             THEN Parsed(Unbounded)
        ELSE parseConstraints(matches.constraints, matches.scheme)
  IN parse(versURIRegex(versURI))

\* strings.Count(s, sep)
StrCount(s, sep) == Len(StrSplit(s, sep)) - 1

\* normalizeVersion
normalizeVersion(version, scheme) ==
  LET pad(dots) == IF scheme \in {Npm, Cargo, Nuget} /\ dots = 0
                   THEN version \o <<".", "0", ".", "0">>
                   ELSE IF scheme \in {Npm, Cargo, Nuget} /\ dots = 1
                   THEN version \o <<".", "0">>
                   ELSE version
  IN IF StrContains(version, <<"-">>) THEN version ELSE pad(StrCount(version, <<".">>))

\* A constraintWithVersion.
constraintWithVersion(op, version, scheme) ==
  [str |-> op \o normalizeVersion(version, scheme), sortKey |-> version]

\* The constraints ToVersString writes for one interval.
intervalConstraints(interval, scheme) ==
  IF interval.Min = interval.Max /\ interval.MinInclusive /\ interval.MaxInclusive
       /\ interval.Min # << >>
  THEN <<constraintWithVersion(<< >>, interval.Min, scheme)>>
  ELSE (IF interval.Min # << >>
        THEN <<constraintWithVersion(IF interval.MinInclusive THEN OpGe ELSE OpGt,
                                     interval.Min, scheme)>>
        ELSE << >>)
       \o (IF interval.Max # << >>
           THEN <<constraintWithVersion(IF interval.MaxInclusive THEN OpLe ELSE OpLt,
                                        interval.Max, scheme)>>
           ELSE << >>)

RECURSIVE allIntervalConstraints(_, _)
allIntervalConstraints(intervals, scheme) ==
  IF intervals = << >> THEN << >>
  ELSE intervalConstraints(Head(intervals), scheme)
         \o allIntervalConstraints(Tail(intervals), scheme)

exclusionConstraints(exclusions, scheme) ==
  [k \in DOMAIN exclusions |-> constraintWithVersion(OpNe, exclusions[k], scheme)]

\* sortConstraintsByVersion: the inner loop (j) and the outer loop (i).
RECURSIVE sortInner(_, _, _)
sortInner(constraints, i, j) ==
  IF j > Len(constraints) THEN constraints
  ELSE sortInner(IF CompareVersions(constraints[i].sortKey, constraints[j].sortKey) > 0
                 THEN [constraints EXCEPT ![i] = constraints[j], ![j] = constraints[i]]
                 ELSE constraints,
                 i, j + 1)

RECURSIVE sortOuter(_, _)
sortOuter(constraints, i) ==
  IF i > Len(constraints) THEN constraints
  ELSE sortOuter(sortInner(constraints, i, i + 1), i + 1)

sortConstraintsByVersion(constraints) == sortOuter(constraints, 1)

\* fmt.Sprintf("vers:%s/%s", scheme, constraints)
VersURI(scheme, constraints) == VersPrefix \o scheme \o <<"/">> \o constraints

\* Parser.ToVersString. The Range of this source has no RawConstraints
\* field: its length is taken to be 0.
ToVersString(r, scheme) ==
  LET strs(constraints) == [k \in DOMAIN constraints |-> constraints[k].str]
  IN IF RangeIsUnbounded(r) /\ Len(r.Exclusions) = 0 THEN VersURI(scheme, <<"*">>)
     ELSE IF RangeIsEmpty(r) THEN VersURI(scheme, << >>)
     ELSE VersURI(scheme,
                  StrJoin(strs(sortConstraintsByVersion(
                                 allIntervalConstraints(r.Intervals, scheme)
                                   \o exclusionConstraints(r.Exclusions, scheme))),
                          <<"|">>))

(***************************************************************************)
(* Parser: the native translators                                          *)
(***************************************************************************)

\* strings.Fields (the model's white space is the blank).
Fields(s) == SelectSeq(StrSplit(s, <<" ">>), LAMBDA part : part # << >>)

\* strings.TrimSuffix
TrimSuffix(s, suffix) == IF HasSuffix(s, suffix) THEN Take(s, Len(s) - Len(suffix)) ELSE s

\* strings.ReplaceAll(s, old, new) for a non-empty old.
ReplaceAll(s, old, new) == StrJoin(StrSplit(s, old), new)

\* A range of one interval, without error.
OneInterval(interval) == Parsed(NewRange(<<interval>>))

\* The loops "result = r, then result = result.Union(r) or
\* result.Intersect(r)": acc is the result so far, nil before the first part.
NoResult == [err |-> FALSE, nil |-> TRUE, range |-> MkRange(<< >>, << >>)]

unionStep(acc, r) ==
  IF r.err THEN [acc EXCEPT !.err = TRUE]
  ELSE [err |-> FALSE, nil |-> FALSE,
        range |-> IF acc.nil THEN r.range ELSE UnionValue(acc.range, r.range)]

intersectStep(acc, r) ==
  IF r.err THEN [acc EXCEPT !.err = TRUE]
  ELSE [err |-> FALSE, nil |-> FALSE,
        range |-> IF acc.nil THEN r.range ELSE IntersectValue(acc.range, r.range)]

\* What such a loop returns (every loop of the translators modelled here
\* runs at least once, so the result is not nil).
loopResult(acc) == IF acc.err THEN ParseError ELSE Parsed(acc.range)

isOperatorOnly(s) == s \in {OpGe, OpLe, OpGt, OpLt, OpEq, OpNe}

\* The loop of tokenizeNpmConstraints from token i on.
RECURSIVE mergeOperatorTokens(_, _)
mergeOperatorTokens(tokens, i) ==
  IF i > Len(tokens) THEN << >>
  ELSE IF isOperatorOnly(tokens[i]) /\ i + 1 <= Len(tokens)
       THEN <<tokens[i] \o tokens[i + 1]>> \o mergeOperatorTokens(tokens, i + 2)
  ELSE <<tokens[i]>> \o mergeOperatorTokens(tokens, i + 1)

tokenizeNpmConstraints(s) ==
  LET merge(tokens) == IF Len(tokens) <= 1 THEN tokens ELSE mergeOperatorTokens(tokens, 1)
  IN merge(Fields(s))

\* extractOperator: the operator and the rest, tried in the code's order.
extractOperator(s) ==
  LET ops == <<OpGe, OpLe, OpNe, OpGt, OpLt, OpEq>>
      first(found) == IF found = {} THEN <<<< >>, s>>
                      ELSE LET k == CHOOSE k \in found : \A j \in found : k <= j
                           IN <<ops[k], Drop(s, Len(ops[k]))>>
  IN first({k \in DOMAIN ops : HasPrefix(s, ops[k])})

\* fmt.Sprintf("%d.%d.%d", a, b, c) and fmt.Sprintf("%d.%d", a, b)
Sprintf3(a, b, c) == Itoa(a) \o <<".">> \o Itoa(b) \o <<".">> \o Itoa(c)

Sprintf2(a, b) == Itoa(a) \o <<".">> \o Itoa(b)

\* parseCaretRange with the upper bound at the next major in every case.
parseCaretRangeToNextMajor(version) ==
  LET range(v) == IF v.err THEN ParseError
                  ELSE OneInterval(NewInterval(version, Sprintf3(v.Major + 1, 0, 0), TRUE, FALSE))
  IN range(ParseVersion(version))

parseCaretRange(version) ==
  LET upper(v) == IF v.Major > 0 THEN Sprintf3(v.Major + 1, 0, 0)
                  ELSE IF v.Minor > 0 THEN Sprintf3(0, v.Minor + 1, 0)
                  ELSE Sprintf3(0, 0, v.Patch + 1)
      range(v) == IF v.err THEN ParseError
                  ELSE OneInterval(NewInterval(version, upper(v), TRUE, FALSE))
  IN range(ParseVersion(version))

parseTildeRange(version) ==
  LET baseVersion(v) == Sprintf3(v.Major, v.Minor, v.Patch)
      nextPatch(v) == Sprintf3(v.Major, v.Minor, v.Patch + 1)
      upper(v) == IF v.Minor > 0 \/ v.Patch > 0 THEN Sprintf3(v.Major, v.Minor + 1, 0)
                  ELSE Sprintf3(v.Major + 1, 0, 0)
      range(v) == IF v.err THEN ParseError
                  ELSE IF v.Prerelease # << >>
                       THEN Parsed(NewRange(<<NewInterval(version, baseVersion(v), TRUE, FALSE),
                                              NewInterval(baseVersion(v), nextPatch(v), TRUE, FALSE)>>))
                  ELSE OneInterval(NewInterval(version, upper(v), TRUE, FALSE))
  IN range(ParseVersion(version))

\* parseXRange after the three TrimSuffix calls.
xRangeOf(s, parts) ==
  LET range(v) == IF v.err THEN ParseError
                  ELSE IF Len(parts) = 1
                       THEN OneInterval(NewInterval(Sprintf3(v.Major, 0, 0),
                                                    Sprintf3(v.Major + 1, 0, 0), TRUE, FALSE))
                  ELSE OneInterval(NewInterval(Sprintf3(v.Major, v.Minor, 0),
                                               Sprintf3(v.Major, v.Minor + 1, 0), TRUE, FALSE))
  IN range(ParseVersion(IF Len(parts) = 1 THEN parts[1] ELSE s))

parseXRange(s) ==
  LET split(t) == xRangeOf(t, StrSplit(t, <<".">>))
  IN split(TrimSuffix(TrimSuffix(TrimSuffix(s, <<".", "x">>), <<".", "X">>), <<".", "*">>))

\* The "standard constraint" end of parseNpmSingleRange and of
\* parseHexConstraint on the parsed constraint.
standardConstraint(constraint) ==
  IF constraint.err THEN ParseError
  ELSE IF ToInterval(constraint).ok THEN OneInterval(ToInterval(constraint).iv)
  ELSE IF IsExclusion(constraint) THEN Parsed(ExcludeValue(Unbounded, constraint.Version))
  ELSE ParseError

parseNpmSingleRange(s) ==
  LET hyphen(parts) == OneInterval(NewInterval(TrimSpace(parts[1]), TrimSpace(parts[2]), TRUE, TRUE))
      xRange(extracted) == IF extracted[1] # << >> THEN parseXRange(extracted[2])
                           ELSE parseXRange(s)
  IN IF HasPrefix(s, <<"^">>) THEN parseCaretRange(Tail(s))
     ELSE IF HasPrefix(s, <<"~">>) THEN parseTildeRange(Tail(s))
     ELSE IF StrContains(s, <<" ", "-", " ">>) THEN hyphen(StrSplit2(s, <<" ", "-", " ">>))
     ELSE IF \E suffix \in {<<".", "x">>, <<".", "X">>, <<".", "*">>} : HasSuffix(s, suffix)
          THEN xRange(extractOperator(s))
     ELSE standardConstraint(ParseConstraint(s))

\* The loop of the space-separated branch of parseNpmRange.
RECURSIVE npmAll(_, _)
npmAll(parts, acc) ==
  IF parts = << >> \/ acc.err THEN acc
  ELSE npmAll(Tail(parts), intersectStep(acc, parseNpmSingleRange(Head(parts))))

\* parseNpmRange, and the loop of its || branch.
RECURSIVE parseNpmRange(_)
RECURSIVE npmAny(_, _)
npmAny(parts, acc) ==
  IF parts = << >> \/ acc.err THEN acc
  ELSE npmAny(Tail(parts), unionStep(acc, parseNpmRange(TrimSpace(Head(parts)))))

parseNpmRange(s) ==
  LET range(t) ==
        IF t \in {<< >>, <<"*">>, <<"x">>, <<"X">>} THEN Parsed(Unbounded)
        ELSE IF StrContains(t, <<"|", "|">>)
             THEN loopResult(npmAny(StrSplit(t, <<"|", "|">>), NoResult))
        ELSE IF StrContains(t, <<" ">>) /\ ~StrContains(t, <<" ", "-", " ">>)
             THEN loopResult(npmAll(tokenizeNpmConstraints(t), NoResult))
        ELSE parseNpmSingleRange(t)
  IN range(TrimSpace(s))

parsePessimisticRange(version) ==
  LET upper(v, segments) == IF segments >= 3 THEN Sprintf2(v.Major, v.Minor + 1)
                            ELSE Sprintf2(v.Major + 1, 0)
      range(v) == IF v.err THEN ParseError
                  ELSE OneInterval(NewInterval(version,
                                               upper(v, StrCount(version, <<".">>) + 1),
                                               TRUE, FALSE))
  IN range(ParseVersion(version))

Gem == <<"g", "e", "m">>

Rubygems == <<"r", "u", "b", "y", "g", "e", "m", "s">>

\* parseGemRange, and the loop of its comma branch.
RECURSIVE parseGemRange(_)
RECURSIVE gemAll(_, _)
gemAll(parts, acc) ==
  IF parts = << >> \/ acc.err THEN acc
  ELSE gemAll(Tail(parts), intersectStep(acc, parseGemRange(TrimSpace(Head(parts)))))

parseGemRange(s) ==
  LET range(t) ==
        IF HasPrefix(t, <<"~", ">">>) THEN parsePessimisticRange(TrimSpace(Drop(t, 2)))
        ELSE IF StrContains(t, <<",">>) THEN loopResult(gemAll(StrSplit(t, <<",">>), NoResult))
        ELSE parseConstraints(t, Gem)
  IN range(TrimSpace(s))

\* parsePypiRange: both ends of the function call parseConstraints, on the
\* string with its commas replaced when it has any.
parsePypiRange(s) ==
  LET range(t) ==
        IF HasPrefix(t, <<"~", "=">>) THEN parsePessimisticRange(TrimSpace(Drop(t, 2)))
        ELSE parseConstraints(IF StrContains(t, <<",">>)
                              THEN StrJoin(StrSplit(t, <<",">>), <<"|">>) ELSE t,
                              Pypi)
  IN range(TrimSpace(s))

parseBracketRange(s) ==
  LET range(parts) ==
        IF Len(parts) = 1 THEN Parsed(Exact(TrimSpace(parts[1])))
        ELSE OneInterval(NewInterval(TrimSpace(parts[1]), TrimSpace(parts[2]),
                                     s[1] = "[", s[Len(s)] = "]"))
  IN range(StrSplit2(SubSeq(s, 2, Len(s) - 1), <<",">>))

parseMavenRange(s) ==
  LET range(t) ==
        IF (HasPrefix(t, <<"[">>) \/ HasPrefix(t, <<"(">>))
             /\ (HasSuffix(t, <<"]">>) \/ HasSuffix(t, <<")">>))
        THEN parseBracketRange(t)
        ELSE IF t # << >> /\ IsDigit(t[1]) THEN OneInterval(GreaterThanInterval(t, TRUE))
        ELSE parseConstraints(t, Maven)
  IN range(TrimSpace(s))

Deb == <<"d", "e", "b">>

Debian == <<"d", "e", "b", "i", "a", "n">>

parseDebianRange(s) ==
  parseConstraints(ReplaceAll(ReplaceAll(s, <<">", ">">>, <<">">>), <<"<", "<">>, <<"<">>), Deb)

parseRpmRange(s) == parseConstraints(s, Rpm)

\* One round of the comma loop of parseGoRange: a part that is an exclusion
\* is passed over.
goStep(acc, constraint) ==
  IF constraint.err THEN [acc EXCEPT !.err = TRUE]
  ELSE IF ~ToInterval(constraint).ok THEN acc
  ELSE intersectStep(acc, OneInterval(ToInterval(constraint).iv))

RECURSIVE goAll(_, _)
goAll(parts, acc) ==
  IF parts = << >> \/ acc.err THEN acc
  ELSE goAll(Tail(parts), goStep(acc, parseConstraintWithScheme(TrimSpace(Head(parts)), Go)))

\* What the comma loop of parseGoRange returns: the error, or result, which
\* is still nil (NoResult) when no part gave an interval.
goResult(acc) == IF acc.err THEN ParseError ELSE IF acc.nil THEN NoResult ELSE Parsed(acc.range)

parseGoRange(s) ==
  IF StrContains(s, <<",">>) THEN goResult(goAll(StrSplit(s, <<",">>), NoResult))
  ELSE parseConstraints(s, Go)

\* A result without error whose *Range is nil.
IsNil(result) == "nil" \in DOMAIN result /\ result.nil

\* The schemes whose translator (parseHexRange) is outside the model.
Untranslated == {<<"h", "e", "x">>, <<"e", "l", "i", "x", "i", "r">>}

\* Parser.ParseNative, on the schemes of the model. parseCargoRange is
\* parseNpmRange and parseNugetRange is parseMavenRange, so these schemes
\* share a case here.
ParseNative(constraint, scheme) ==
  CASE scheme \in {Npm, Cargo} -> parseNpmRange(constraint)
    [] scheme \in {Gem, Rubygems} -> parseGemRange(constraint)
    [] scheme = Pypi -> parsePypiRange(constraint)
    [] scheme \in {Maven, Nuget} -> parseMavenRange(constraint)
    [] scheme \in {Deb, Debian} -> parseDebianRange(constraint)
    [] scheme = Rpm -> parseRpmRange(constraint)
    [] scheme \in {Go, Golang} -> parseGoRange(constraint)
    [] scheme \notin {Npm, Cargo, Gem, Rubygems, Pypi, Maven, Nuget, Deb, Debian, Rpm, Go, Golang}
                       \cup Untranslated -> parseConstraints(constraint, scheme)

(***************************************************************************)
(* VersionModel: the scheme-specific comparison                            *)
(***************************************************************************)

\* strings.ToLower on ASCII.
ToLower(s) ==
  LET lower(c) == IF \E i \in 34..59 : Ascii[i] = c
                  THEN Ascii[(CHOOSE i \in 34..59 : Ascii[i] = c) + 32] ELSE c
  IN [k \in DOMAIN s |-> lower(s[k])]

\* A nugetVersion.
nugetVersion(parts, prerelease) ==
  [numeric |-> [i \in 1..4 |-> IF i <= Len(parts) THEN Atoi(parts[i]).n ELSE 0],
   prerelease |-> prerelease]

parseNuGetVersion(s) ==
  LET split(t, idx) == IF idx # 0 THEN nugetVersion(StrSplit(Take(t, idx - 1), <<".">>), Drop(t, idx))
                       ELSE nugetVersion(StrSplit(t, <<".">>), << >>)
      noBuild(t) == split(t, IndexOf(t, <<"-">>))
      cut(idx) == noBuild(IF idx # 0 THEN Take(s, idx - 1) ELSE s)
  IN cut(IndexOf(s, <<"+">>))

\* compareNuGetPrerelease: the loop is that of comparePrerelease.
compareNuGetPrerelease(a, b) ==
  comparePrereleaseFrom(StrSplit(ToLower(a), <<".">>), StrSplit(ToLower(b), <<".">>), 1)

\* compareNuGet on the parsed operands.
compareNuGetParts(partsA, partsB) ==
  LET differ == {i \in 1..4 : partsA.numeric[i] # partsB.numeric[i]}
      first == CHOOSE i \in differ : \A j \in differ : i <= j
  IN IF differ # {} THEN (IF partsA.numeric[first] < partsB.numeric[first] THEN -1 ELSE 1)
     ELSE IF partsA.prerelease = << >> /\ partsB.prerelease # << >> THEN 1
     ELSE IF partsA.prerelease # << >> /\ partsB.prerelease = << >> THEN -1
     ELSE IF partsA.prerelease = << >> /\ partsB.prerelease = << >> THEN 0
     ELSE compareNuGetPrerelease(partsA.prerelease, partsB.prerelease)

compareNuGet(a, b) == compareNuGetParts(parseNuGetVersion(a), parseNuGetVersion(b))

\* A mavenComponent.
mavenComponent(isNumeric, numeric, qualifier, afterDash) ==
  [isNumeric |-> isNumeric, numeric |-> numeric, qualifier |-> qualifier,
   isNull |-> FALSE, afterDash |-> afterDash]

\* mavenComponent{isNull: true}
NullComponent ==
  [isNumeric |-> FALSE, numeric |-> 0, qualifier |-> << >>, isNull |-> TRUE, afterDash |-> FALSE]

\* mavenQualifierOrder: the order of a known qualifier is its position here.
mavenQualifierOrder ==
  << <<"a", "l", "p", "h", "a">>, <<"b", "e", "t", "a">>,
     <<"m", "i", "l", "e", "s", "t", "o", "n", "e">>, <<"r", "c">>,
     <<"s", "n", "a", "p", "s", "h", "o", "t">>, << >>, <<"s", "p">> >>

\* getMavenQualifierOrder: the order and the ok flag.
getMavenQualifierOrder(q) ==
  LET known(lower) == {k \in DOMAIN mavenQualifierOrder : mavenQualifierOrder[k] = lower}
      order(found) == IF found # {} THEN [order |-> CHOOSE k \in found : TRUE, ok |-> TRUE]
                      ELSE [order |-> 8, ok |-> FALSE]
  IN order(known(ToLower(q)))

\* The state of the loop of splitMavenVersionWithSeparators after the
\* current part was closed (when it is not empty).
closePart(st) ==
  IF st.current # << >>
  THEN [st EXCEPT !.parts = Append(@, st.current),
                  !.afterDash = Append(@, st.currentAfterDash), !.current = << >>]
  ELSE st

\* One round of the loop of splitMavenVersionWithSeparators on character c.
splitMavenStep(st, c) ==
  IF c \in {".", "-"}
  THEN [closePart(st) EXCEPT !.currentAfterDash = (c = "-"), !.firstChar = TRUE]
  ELSE IF ~st.firstChar /\ IsDigit(c) # st.lastWasDigit /\ st.current # << >>
       THEN [closePart(st) EXCEPT !.current = <<c>>, !.currentAfterDash = TRUE,
                                  !.lastWasDigit = IsDigit(c), !.firstChar = FALSE]
  ELSE [st EXCEPT !.current = Append(@, c), !.lastWasDigit = IsDigit(c), !.firstChar = FALSE]

RECURSIVE splitMavenLoop(_, _)
splitMavenLoop(s, st) ==
  IF s = << >> THEN closePart(st) ELSE splitMavenLoop(Tail(s), splitMavenStep(st, Head(s)))

\* splitMavenVersionWithSeparators: the parts and the parallel afterDash flags.
splitMavenVersionWithSeparators(s) ==
  splitMavenLoop(s, [parts |-> << >>, afterDash |-> << >>, current |-> << >>,
                     lastWasDigit |-> FALSE, firstChar |-> TRUE, currentAfterDash |-> FALSE])

\* normalizeMavenQualifier without the alias cr of rc.
normalizeMavenQualifierKeepingCr(q) ==
  IF q \in {<<"g", "a">>, <<"f", "i", "n", "a", "l">>, <<"r", "e", "l", "e", "a", "s", "e">>}
  THEN << >>
  ELSE q

normalizeMavenQualifier(q) ==
  IF q = <<"c", "r">> THEN <<"r", "c">>
  ELSE IF q \in {<<"g", "a">>, <<"f", "i", "n", "a", "l">>, <<"r", "e", "l", "e", "a", "s", "e">>}
       THEN << >>
  ELSE q

normalizeMavenQualifierWithNext(q, nextIsDigit) ==
  IF nextIsDigit /\ q = <<"a">> THEN mavenQualifierOrder[1]
  ELSE IF nextIsDigit /\ q = <<"b">> THEN mavenQualifierOrder[2]
  ELSE IF nextIsDigit /\ q = <<"m">> THEN mavenQualifierOrder[3]
  ELSE normalizeMavenQualifier(q)

\* The component parseMavenVersion appends for a normalized part.
componentOf(normalized, num, afterDash) ==
  IF num.ok THEN mavenComponent(TRUE, num.n, << >>, afterDash)
  ELSE mavenComponent(FALSE, 0, normalized, afterDash)

\* The loop of parseMavenVersion from part i on.
RECURSIVE mavenComponentsFrom(_, _, _)
mavenComponentsFrom(parts, afterDashFlags, i) ==
  LET add(normalized) ==
        IF normalized = << >> THEN << >>
        ELSE <<componentOf(normalized, Atoi(normalized), afterDashFlags[i])>>
  IN IF i > Len(parts) THEN << >>
     ELSE add(normalizeMavenQualifierWithNext(parts[i],
                                              i + 1 <= Len(parts) /\ Atoi(parts[i + 1]).ok))
            \o mavenComponentsFrom(parts, afterDashFlags, i + 1)

\* The components without their trailing numeric zeros, keeping atLeast.
RECURSIVE trimZeros(_, _)
trimZeros(components, atLeast) ==
  IF Len(components) > atLeast /\ components[Len(components)].isNumeric
       /\ components[Len(components)].numeric = 0
  THEN trimZeros(Take(components, Len(components) - 1), atLeast)
  ELSE components

\* normalizeMavenComponents: sublist is the set of positions of the sublist
\* components.
trimMavenBase(components, sublist) ==
  LET firstSublistIdx == CHOOSE k \in sublist : \A j \in sublist : k <= j
  IN IF sublist = {} THEN trimZeros(components, 0)
     ELSE IF firstSublistIdx > 1
          THEN trimZeros(Take(components, firstSublistIdx - 1), 1)
                 \o Drop(components, firstSublistIdx - 1)
     ELSE components

normalizeMavenComponents(components) ==
  trimMavenBase(components, {k \in DOMAIN components : components[k].afterDash})

parseMavenVersion(s) ==
  LET components(split) == mavenComponentsFrom(split.parts, split.afterDash, 1)
  IN normalizeMavenComponents(components(splitMavenVersionWithSeparators(ToLower(s))))

\* againstRelease with every qualifier but the release below the release.
againstReleaseAllBelow(order) == IF order = 6 THEN 0 ELSE -1

\* order compared with the order of the release, as -1, 0 or 1.
againstRelease(order) == IF order < 6 THEN -1 ELSE IF order > 6 THEN 1 ELSE 0

compareMavenToNull(comp, flip) ==
  IF comp.isNumeric
  THEN (IF comp.numeric = 0 THEN 0
        ELSE IF comp.numeric > 0 \/ ~comp.afterDash THEN 1 ELSE -1)
  ELSE againstRelease(getMavenQualifierOrder(comp.qualifier).order)

\* The end of compareMavenComponentsNew: two qualifiers of the same level
\* with their orders.
compareQualifiers(a, b, orderA, orderB) ==
  IF orderA.order # orderB.order THEN (IF orderA.order < orderB.order THEN -1 ELSE 1)
  ELSE IF ~orderA.ok /\ ~orderB.ok /\ a.qualifier # b.qualifier
       THEN (IF StrLess(a.qualifier, b.qualifier) THEN -1 ELSE 1)
  ELSE 0

compareMavenComponentsNew(a, b) ==
  IF a.isNull /\ b.isNull THEN 0
  ELSE IF a.isNull THEN compareMavenToNull(b, TRUE) * (-1)
  ELSE IF b.isNull THEN compareMavenToNull(a, FALSE)
  ELSE IF a.afterDash # b.afterDash
       THEN (IF a.afterDash THEN (IF b.isNumeric THEN -1 ELSE 1)
             ELSE IF a.isNumeric THEN 1 ELSE -1)
  ELSE IF a.isNumeric /\ b.isNumeric
       THEN (IF a.numeric < b.numeric THEN -1 ELSE IF a.numeric > b.numeric THEN 1 ELSE 0)
  ELSE IF a.isNumeric /\ ~b.isNumeric THEN 1
  ELSE IF ~a.isNumeric /\ b.isNumeric THEN -1
  ELSE compareQualifiers(a, b, getMavenQualifierOrder(a.qualifier),
                         getMavenQualifierOrder(b.qualifier))

\* The loop of compareMaven from component i on.
RECURSIVE compareMavenFrom(_, _, _)
RECURSIVE compareMavenNext(_, _, _, _)
compareMavenNext(partsA, partsB, i, cmp) ==
  IF cmp # 0 THEN cmp ELSE compareMavenFrom(partsA, partsB, i + 1)

compareMavenFrom(partsA, partsB, i) ==
  LET comp(parts) == IF i <= Len(parts) THEN parts[i] ELSE NullComponent
  IN IF i > Len(partsA) /\ i > Len(partsB) THEN 0
     ELSE compareMavenNext(partsA, partsB, i,
                           compareMavenComponentsNew(comp(partsA), comp(partsB)))

\* parseMavenVersion applied to each string of a list.
ParseMavenEach(versions) == [k \in DOMAIN versions |-> parseMavenVersion(versions[k])]

compareMaven(a, b) ==
  LET compare(parts) == compareMavenFrom(parts[1], parts[2], 1)
  IN compare(ParseMavenEach(<<a, b>>))

CompareWithScheme(a, b, scheme) ==
  IF a = b THEN 0
  ELSE IF a = << >> THEN -1
  ELSE IF b = << >> THEN 1
  ELSE IF scheme = Nuget THEN compareNuGet(a, b)
  ELSE IF scheme = Maven THEN compareMaven(a, b)
  ELSE CompareVersions(a, b)

(***************************************************************************)
(* The version strings and ranges the model draws its inputs from          *)
(***************************************************************************)

\* "1.0" and "1.0.0" compare equal and are different strings; the three
\* prereleases mix numeric and alphanumeric segments.
V1_0 == <<"1", ".", "0">>

V1_0_0 == <<"1", ".", "0", ".", "0">>

V1_5 == <<"1", ".", "5">>

V2_0 == <<"2", ".", "0">>

V1_0p2 == <<"1", ".", "0", "-", "2">>

V1_0p10 == <<"1", ".", "0", "-", "1", "0">>

V1_0p1a == <<"1", ".", "0", "-", "1", "a">>

VersionPool == {V1_0, V1_0_0, V1_5, V2_0, V1_0p2, V1_0p10, V1_0p1a}

\* The versions the model passes to Exclude.
ExcludePool == {V1_5, V1_0p2}

\* Ranges a caller can build from the exported constructors and fields.
SeedRanges ==
  { Empty,
    Unbounded,
    MkRange(<<NewInterval(V1_0, V2_0, TRUE, TRUE)>>, <<V1_5>>),
    MkRange(<<GreaterThanInterval(V1_5, FALSE)>>, <<V1_5, V1_0>>),
    MkRange(<<NewInterval(V1_0, V1_5, FALSE, FALSE)>>, << >>),
    MkRange(<<LessThanInterval(V1_0p1a, TRUE), GreaterThanInterval(V1_0p10, TRUE)>>, << >>) }

(***************************************************************************)
(* Specification Spec: Range values on the heap and the combinators        *)
(***************************************************************************)

\* heap: the Range objects allocated so far (a *Range is an index into it).
\* last: the last combinator call, its operands and the *Range it returned.
\* ask:  a Contains query (specification SpecContains): the Range, the
\*       version, the method last called and what it returned.
\*       In specification SpecInterval: a list of intervals, the function
\*       last applied to it and what it returned.
\* job:  a constraint on its way through the parser (specification
\*       SpecParse): the input, the calls made so far and what they returned.
\* trial: versions on their way through a comparison function
\*       (specification SpecCompare): the strings and the results.
\* cache: versionCache (specification SpecCache): its entries, who holds
\*       its mutex, and the history of its stores and wipes.
\* calls: for each goroutine, its place in ParseVersion and its locals.
VARIABLES heap, last, ask, job, trial, cache, calls

vars == <<heap, last, ask, job, trial, cache, calls>>

\* No Contains query.
NoAsk == [range |-> MkRange(<< >>, << >>), version |-> << >>, op |-> "none", k |-> 0, result |-> FALSE]

\* No parser job.
NoJob == [kind |-> "none", stage |-> "none"]

\* No comparison trial.
NoTrial == [family |-> "none", fn |-> "none"]

\* The goroutines that call ParseVersion at the same time.
Goroutines == {"g1", "g2"}

\* The strings they pass: one for each branch of ParseVersion that stores its
\* result (a number, a semantic version, a dotted and a dashed version),
\* the empty string and a string that is no version.
CacheKeys ==
  {<<"1">>, V1_0, <<"1", ".", "0", ".", "0", ".", "1">>, <<"x", "-", "1">>, << >>, <<"x">>}

\* versionCache.max, scaled down from 10000.
CacheMax == 2

\* c.items[key] for a key the map does not hold: nil.
NoEntry == [present |-> FALSE, v |-> InvalidVersion(<< >>)]

\* make(map[string]*VersionInfo)
NoItems == [key \in CacheKeys |-> NoEntry]

\* versionCache as the package creates it: no entry, the mutex free. The
\* fields stored and wiped are history: the keys stored since the last wipe,
\* and whether a wipe has happened.
NoCache == [items |-> NoItems, readers |-> {}, writer |-> "none", stored |-> {}, wiped |-> FALSE]

\* A goroutine that is not in ParseVersion.
Idle ==
  [pc |-> "idle", s |-> << >>, cached |-> NoEntry, v |-> InvalidVersion(<< >>),
   full |-> FALSE, hit |-> FALSE, ret |-> InvalidVersion(<< >>)]

NoCalls == [g \in Goroutines |-> Idle]

\* How many Range objects the model lets exist.
MaxHeap == 3

NoCall == [op |-> "none", recv |-> 0, arg |-> 0, ver |-> << >>, out |-> 0]

Call(op, recv, arg, ver, out) == [op |-> op, recv |-> recv, arg |-> arg, ver |-> ver, out |-> out]

\* A freshly allocated Range.
Alloc(h, r) == [heap |-> Append(h, r), out |-> Len(h) + 1]

\* r.Union(other): returns one of its operands when the other is empty.
RangeUnion(h, r, other) ==
  LET union(empty) == IF empty[1] THEN [heap |-> h, out |-> other]
                      ELSE IF empty[2] THEN [heap |-> h, out |-> r]
                      ELSE Alloc(h, UnionNew(h[r], h[other]))
  IN union(EmptyEach(<<h[r], h[other]>>))

\* r.Intersect(other)
RangeIntersect(h, r, other) == Alloc(h, IntersectValue(h[r], h[other]))

\* A variant of r.Exclude(version) that appends to the receiver's own
\* exclusions and returns the receiver: what the frame property rules out.
RangeExcludeInPlace(h, r, version) ==
  [heap |-> [h EXCEPT ![r] = ExcludeValue(h[r], version)], out |-> r]

\* r.Exclude(version): copies the exclusions before appending.
RangeExclude(h, r, version) == Alloc(h, ExcludeValue(h[r], version))

Init ==
  /\ heap \in {<<a, b>> : a \in SeedRanges, b \in SeedRanges}
  /\ last = NoCall
  /\ cache = NoCache
  /\ calls = NoCalls
  /\ ask = NoAsk
  /\ job = NoJob
  /\ trial = NoTrial

\* The heap and the call record after a combinator returned res.
Returned(res, op, recv, arg, ver) ==
  /\ Len(res.heap) <= MaxHeap
  /\ heap' = res.heap
  /\ last' = Call(op, recv, arg, ver, res.out)
  /\ UNCHANGED <<cache, calls, ask, job, trial>>

DoUnion ==
  \E r \in DOMAIN heap, other \in DOMAIN heap :
    Returned(RangeUnion(heap, r, other), "Union", r, other, << >>)

DoIntersect ==
  \E r \in DOMAIN heap, other \in DOMAIN heap :
    Returned(RangeIntersect(heap, r, other), "Intersect", r, other, << >>)

DoExclude ==
  \E r \in DOMAIN heap, version \in ExcludePool :
    Returned(RangeExclude(heap, r, version), "Exclude", r, 0, version)

Next == DoUnion \/ DoIntersect \/ DoExclude

Spec == Init /\ [][Next]_vars

(***************************************************************************)
(* Specification SpecContains: Interval.Contains, Range.Contains,          *)
(* Range.IsEmpty and Range.IsUnbounded applied to drawn ranges and versions *)
(***************************************************************************)

\* The bounds of the drawn intervals: absent, release versions (two of them
\* equal as versions), and prereleases.
BoundPool == {<< >>, V1_0, V1_5, V2_0, V1_0p10, V1_0p1a}

\* Every Interval value over the bounds: each bound absent or present,
\* inclusive or exclusive, minimum below, at or above the maximum.
IntervalPool ==
  {NewInterval(min, max, minInclusive, maxInclusive) :
     min \in BoundPool, max \in BoundPool, minInclusive \in BOOLEAN, maxInclusive \in BOOLEAN}

\* Lists of intervals: none, one, and some pairs, two of which leave no
\* version out between them.
IntervalLists ==
  {<< >>} \cup {<<i>> : i \in IntervalPool}
    \cup {<<EmptyInterval, i>> : i \in {ExactInterval(V1_0), GreaterThanInterval(V1_5, FALSE)}}
    \cup {<<LessThanInterval(V1_0, FALSE), i>> :
            i \in {GreaterThanInterval(V1_5, TRUE), NewInterval(V1_5, V2_0, FALSE, TRUE)}}
    \cup {<<LessThanInterval(V2_0, TRUE), i>> :
            i \in {GreaterThanInterval(V1_0, TRUE), GreaterThanInterval(V2_0, FALSE)}}

\* Lists of exclusions: none, a version written another way than in the
\* pool of queried versions, and two versions.
ExclusionLists == {<< >>, <<V1_0>>, <<V2_0, V1_5>>}

ContainsInit ==
  /\ ask \in {[range |-> MkRange(intervals, exclusions), version |-> version,
               op |-> "none", k |-> 0, result |-> FALSE] :
               intervals \in IntervalLists, exclusions \in ExclusionLists,
               version \in VersionPool}
  /\ heap = << >>
  /\ last = NoCall
  /\ cache = NoCache
  /\ calls = NoCalls
  /\ job = NoJob
  /\ trial = NoTrial

\* ask.range.Contains(ask.version)
AskRange ==
  /\ ask' = [ask EXCEPT !.op = "Range.Contains", !.k = 0,
                        !.result = RangeContains(ask.range, ask.version)]
  /\ UNCHANGED <<cache, calls, heap, last, job, trial>>

\* ask.range.Intervals[k].Contains(ask.version)
AskInterval ==
  \E k \in DOMAIN ask.range.Intervals :
    /\ ask' = [ask EXCEPT !.op = "Interval.Contains", !.k = k,
                          !.result = IntervalContains(ask.range.Intervals[k], ask.version)]
    /\ UNCHANGED <<cache, calls, heap, last, job, trial>>

\* ask.range.IsEmpty()
AskIsEmpty ==
  /\ ask' = [ask EXCEPT !.op = "Range.IsEmpty", !.k = 0, !.result = RangeIsEmpty(ask.range)]
  /\ UNCHANGED <<cache, calls, heap, last, job, trial>>

\* ask.range.IsUnbounded()
AskIsUnbounded ==
  /\ ask' = [ask EXCEPT !.op = "Range.IsUnbounded", !.k = 0,
                        !.result = RangeIsUnbounded(ask.range)]
  /\ UNCHANGED <<cache, calls, heap, last, job, trial>>

ContainsNext == AskRange \/ AskInterval \/ AskIsEmpty \/ AskIsUnbounded

SpecContains == ContainsInit /\ [][ContainsNext]_vars

(***************************************************************************)
(* Specification SpecParse: drawn native constraints and vers URIs go      *)
(* through ParseNative or Parse, ToVersString and Parse again              *)
(***************************************************************************)

V0_9 == <<"0", ".", "9">>

V1_0_0_1 == <<"1", ".", "0", ".", "0", ".", "1">>

V3_0 == <<"3", ".", "0">>

\* The versions asked of the parsed ranges: below, at, between and above
\* the bounds, one with a fourth numeric part.
QueryPool == {V0_9, V1_0, V1_0_0, V1_0_0_1, V1_5, V2_0, V3_0}

\* The versions written in the drawn constraints.
ClauseVersions == {V1_0_0, V1_5, V2_0}

ClauseOps == {OpEq, OpNe, OpLt, OpLe, OpGt, OpGe}

\* A clause of a vers URI as the caller writes it.
Clauses == {[op |-> op, version |-> version] : op \in ClauseOps, version \in ClauseVersions}

\* How many clauses a drawn vers URI has at most.
MaxClauses == 2

ClauseLists == UNION {[1..n -> Clauses] : n \in 0..MaxClauses}

URIOf(scheme, clauses) ==
  VersURI(scheme, StrJoin([k \in DOMAIN clauses |-> clauses[k].op \o clauses[k].version],
                          <<"|">>))

\* The native constraints drawn for each translator.
Blank == <<" ">>

Writings(prefixes, space) == {p \o space \o v : p \in prefixes, v \in ClauseVersions}

Pairs(open, middle, close) ==
  {open \o v \o middle \o w \o close : v \in ClauseVersions, w \in ClauseVersions}

NpmInputs ==
  {<< >>, <<"*">>, <<"^">>, <<"1", ".", "x">>, <<">", "=", "1", ".", "5", ".", "x">>, <<"~">> \o V1_0p2}
    \cup Writings({<<"^">>, <<"~">>, << >>} \cup ClauseOps, << >>)
    \cup Writings({OpGe}, Blank)
    \cup Pairs(OpGe, <<" ", "<">>, << >>)
    \cup Pairs(<< >>, <<" ", "-", " ">>, << >>)
    \cup Pairs(<< >>, <<" ", "|", "|", " ">>, << >>)

GemInputs ==
  {<< >>} \cup Writings({<<"~", ">">>} \cup ClauseOps, Blank)
    \cup Pairs(<<">", "=", " ">>, <<",", " ", "<", " ">>, << >>)

PypiInputs ==
  {<< >>} \cup Writings({<<"~", "=">>, <<"=", "=">>} \cup ClauseOps, << >>)
    \cup Pairs(OpGe, <<",", "<">>, << >>)

MavenInputs ==
  {<< >>} \cup Writings({<< >>, OpGe}, << >>)
    \cup {<<"[">> \o v \o <<"]">> : v \in ClauseVersions}
    \cup {<<"(">> \o v \o <<",", ")">> : v \in ClauseVersions}
    \cup {<<"(", ",">> \o v \o <<"]">> : v \in ClauseVersions}
    \cup Pairs(<<"[">>, <<",">>, <<"]">>)
    \cup Pairs(<<"[">>, <<",">>, <<")">>)

DebianInputs == {<< >>} \cup Writings({<<">", ">">>, <<"<", "<">>} \cup ClauseOps, Blank)

GenericInputs == {<< >>, OpGe} \cup Writings(ClauseOps, << >>) \cup Pairs(OpGe, <<"|", "<">>, << >>)

\* A scheme without a translator of its own.
Conan == <<"c", "o", "n", "a", "n">>

NativeJobs ==
  {<<scheme, s>> : scheme \in {Npm, Cargo}, s \in NpmInputs}
    \cup {<<scheme, s>> : scheme \in {Gem, Rubygems}, s \in GemInputs}
    \cup {<<Pypi, s>> : s \in PypiInputs}
    \cup {<<scheme, s>> : scheme \in {Maven, Nuget}, s \in MavenInputs}
    \cup {<<scheme, s>> : scheme \in {Deb, Debian}, s \in DebianInputs}
    \cup {<<scheme, s>> : scheme \in {Rpm, Conan}, s \in GenericInputs}

\* Caret and tilde ranges, written from the numbers they state.
CaretNumbers == {<<0, 0, 0>>, <<0, 0, 3>>, <<0, 2, 0>>, <<0, 2, 3>>, <<1, 0, 0>>, <<1, 2, 3>>}

TildeNumbers ==
  {<<0>>, <<1>>, <<0, 0>>, <<1, 0>>, <<1, 2>>, <<0, 0, 0>>, <<0, 0, 3>>, <<1, 0, 0>>,
   <<1, 2, 0>>, <<1, 2, 3>>}

WriteNumbers(numbers) == StrJoin([k \in DOMAIN numbers |-> Itoa(numbers[k])], <<".">>)

\* Comma-separated lists, written from their clauses.
V1_2 == <<"1", ".", "2">>

V1_2_5 == <<"1", ".", "2", ".", "5">>

OpPessimistic == <<"~", ">">>

GemClauses ==
  {[op |-> op, version |-> version] :
     op \in {OpPessimistic, OpGe, OpLt, OpNe}, version \in {V1_2, V1_2_5, V2_0}}

PypiClauses ==
  {[op |-> op, version |-> version] :
     op \in {OpGe, OpGt, OpLt, OpLe, OpNe}, version \in ClauseVersions}

PypiFewClauses ==
  {[op |-> op, version |-> version] : op \in {OpGe, OpLt, OpNe}, version \in {V1_0_0, V2_0}}

GoClauses ==
  {[op |-> op, version |-> version] :
     op \in {OpEq, OpGe, OpLt, OpNe}, version \in ClauseVersions}

\* The lists drawn for gem and go have two clauses, those for pypi two, or
\* three of the smaller pool.
ListsOfTwo(clauses) == {<<c, d>> : c \in clauses, d \in clauses}

ListsOfThree(clauses) == {<<c, d, e>> : c \in clauses, d \in clauses, e \in clauses}

WriteList(listed, space, comma) ==
  StrJoin([k \in DOMAIN listed |-> listed[k].op \o space \o listed[k].version], comma)

\* The schemes of the drawn vers URIs.
URISchemes == {Npm, Nuget}

\* A job before its first call: a native constraint for ParseNative, or a
\* vers URI (written from its clauses) for Parse.
NewJob(kind, scheme, text, clauses) ==
  [kind |-> kind, scheme |-> scheme, text |-> text, clauses |-> clauses, stage |-> "new",
   result |-> ParseError, uri |-> << >>, back |-> ParseError,
   form |-> "", numbers |-> << >>, listed |-> << >>]

\* A job for ParseNative whose constraint is written from numbers (form
\* "caret" or "tilde") or from a list of clauses (form "list").
FormJob(scheme, text, form, numbers, listed) ==
  [NewJob("native", scheme, text, << >>) EXCEPT
     !.form = form, !.numbers = numbers, !.listed = listed]

FormJobs ==
  {FormJob(scheme, <<"^">> \o WriteNumbers(numbers), "caret", numbers, << >>) :
     scheme \in {Npm, Cargo}, numbers \in CaretNumbers}
    \cup {FormJob(scheme, <<"~">> \o WriteNumbers(numbers), "tilde", numbers, << >>) :
            scheme \in {Npm, Cargo}, numbers \in TildeNumbers}
    \cup {FormJob(scheme, WriteList(listed, Blank, <<",", " ">>), "list", << >>, listed) :
            scheme \in {Gem, Rubygems}, listed \in ListsOfTwo(GemClauses)}
    \cup {FormJob(Pypi, WriteList(listed, << >>, <<",">>), "list", << >>, listed) :
            listed \in ListsOfTwo(PypiClauses) \cup ListsOfThree(PypiFewClauses)}
    \cup {FormJob(scheme, WriteList(listed, << >>, <<",">>), "list", << >>, listed) :
            scheme \in {Go, Golang}, listed \in ListsOfTwo(GoClauses)}

\* vers URIs that lack a part, or whose constraint part is * or empty, each
\* with the name of what it lacks or is and the scheme to render it with.
SpecialURIs ==
  {<<"no prefix", Npm, <<"n", "p", "m", "/", ">", "=", "1", ".", "0", ".", "0">>>>,
   <<"no prefix", Npm, <<">", "=", "1", ".", "0", ".", "0">>>>,
   <<"no prefix", Npm, <<"v", "e", "r", ":", "n", "p", "m", "/", ">", "=", "1", ".", "0", ".", "0">>>>,
   <<"no prefix", Npm, <<"V", "E", "R", "S", ":", "n", "p", "m", "/", ">", "=", "1", ".", "0", ".",
      "0">>>>,
   <<"no prefix", Npm, <<" ", "v", "e", "r", "s", ":", "n", "p", "m", "/", "*">>>>,
   <<"no prefix", Npm, <<"v", "e", "r", "s">>>>,
   <<"no slash", Npm, <<"v", "e", "r", "s", ":", "n", "p", "m">>>>,
   <<"no slash", Npm, <<"v", "e", "r", "s", ":", "n", "p", "m", ">", "=", "1", ".", "0", ".", "0">>>>,
   <<"no slash", Npm, <<"v", "e", "r", "s", ":">>>>,
   <<"no scheme", Npm, <<"v", "e", "r", "s", ":", "/", ">", "=", "1", ".", "0", ".", "0">>>>,
   <<"no scheme", Npm, <<"v", "e", "r", "s", ":", "/", "*">>>>,
   <<"no scheme", Npm, <<"v", "e", "r", "s", ":", "/">>>>,
   <<"no version", Npm, <<"v", "e", "r", "s", ":", "n", "p", "m", "/", ">", "=">>>>,
   <<"no version", Npm, <<"v", "e", "r", "s", ":", "n", "p", "m", "/", ">", "=", "1", ".", "0", ".",
      "0", "|", "<">>>>,
   <<"no version", Npm, <<"v", "e", "r", "s", ":", "n", "p", "m", "/", "!", "=">>>>,
   <<"no version", Npm, <<"v", "e", "r", "s", ":", "n", "p", "m", "/", " ", "=", " ">>>>,
   <<"no version", Conan, <<"v", "e", "r", "s", ":", "c", "o", "n", "a", "n", "/", "<", "=", "|", ">",
      "=", "1", ".", "5">>>>,
   <<"no version", Pypi, <<"v", "e", "r", "s", ":", "p", "y", "p", "i", "/", ">", "=", " ", "|", "<",
      "2", ".", "0">>>>,
   <<"universal", Npm, <<"v", "e", "r", "s", ":", "n", "p", "m", "/", "*">>>>,
   <<"universal", Npm, <<"v", "e", "r", "s", ":", "n", "p", "m", "/">>>>,
   <<"universal", Conan, <<"v", "e", "r", "s", ":", "c", "o", "n", "a", "n", "/", "*">>>>,
   <<"universal", <<"x", "y", "z">>, <<"v", "e", "r", "s", ":", "x", "y", "z", "/">>>>,
   <<"universal", Pypi, <<"v", "e", "r", "s", ":", "p", "y", "p", "i", "/">>>>}

\* A job for Parse on a special vers URI, or on a URI of a scheme tag the
\* library does not know (form "unknown scheme").
URIJob(scheme, text, form, clauses) ==
  [NewJob("uri", scheme, text, clauses) EXCEPT !.form = form]

UnknownSchemes == {Conan, <<"x", "y", "z">>}

\* Exclusions of prereleases of one release.
PrereleaseClauses == {[op |-> OpNe, version |-> version] : version \in {V1_0p2, V1_0p10, V1_0p1a}}

URIJobs ==
  {URIJob(special[2], special[3], special[1], << >>) : special \in SpecialURIs}
    \cup {URIJob(scheme, URIOf(scheme, clauses), "unknown scheme", clauses) :
            scheme \in UnknownSchemes,
            clauses \in ListsOfTwo(PypiFewClauses) \cup {<<c>> : c \in Clauses}}
    \cup {URIJob(Npm, URIOf(Npm, clauses), "prereleases", clauses) :
            clauses \in ListsOfThree(PrereleaseClauses)}

ParseInit ==
  /\ job \in {NewJob("native", n[1], n[2], << >>) : n \in NativeJobs}
               \cup {NewJob("uri", scheme, URIOf(scheme, clauses), clauses) :
                       scheme \in URISchemes, clauses \in ClauseLists}
               \cup {NewJob("uri", scheme, VersURI(scheme, <<"*">>), << >>) :
                       scheme \in URISchemes}
               \cup FormJobs
               \cup URIJobs
  /\ heap = << >>
  /\ last = NoCall
  /\ cache = NoCache
  /\ calls = NoCalls
  /\ ask = NoAsk
  /\ trial = NoTrial

\* result, err := p.ParseNative(job.text, job.scheme)
DoParseNative ==
  /\ job.stage = "new"
  /\ job.kind = "native"
  /\ job' = [job EXCEPT !.stage = "parsed", !.result = ParseNative(job.text, job.scheme)]
  /\ UNCHANGED <<cache, calls, heap, last, ask, trial>>

\* result, err := p.Parse(job.text)
DoParse ==
  /\ job.stage = "new"
  /\ job.kind = "uri"
  /\ job' = [job EXCEPT !.stage = "parsed", !.result = Parse(job.text)]
  /\ UNCHANGED <<cache, calls, heap, last, ask, trial>>

\* uri := p.ToVersString(result, job.scheme)
DoToVersString ==
  /\ job.stage = "parsed"
  /\ ~job.result.err
  /\ ~IsNil(job.result)
  /\ job' = [job EXCEPT !.stage = "rendered", !.uri = ToVersString(job.result.range, job.scheme)]
  /\ UNCHANGED <<cache, calls, heap, last, ask, trial>>

\* back, err := p.Parse(uri)
DoParseBack ==
  /\ job.stage = "rendered"
  /\ job' = [job EXCEPT !.stage = "reparsed", !.back = Parse(job.uri)]
  /\ UNCHANGED <<cache, calls, heap, last, ask, trial>>

ParseNext == DoParseNative \/ DoParse \/ DoToVersString \/ DoParseBack

SpecParse == ParseInit /\ [][ParseNext]_vars

(***************************************************************************)
(* Specification SpecCompare: the comparison functions applied to drawn    *)
(* version strings                                                         *)
(***************************************************************************)

\* How a drawn version was written: its numbers and prerelease segments
\* (family "generic"), or its base, the place of its qualifier in the maven
\* chain and the qualifier (family "qualifier"), or its base and the name of
\* what its suffix stands for (family "equal").
Key(numbers, segments, base, place, word, name) ==
  [numbers |-> numbers, segments |-> segments, base |-> base, place |-> place,
   word |-> word, name |-> name]

NoKey == Key(<< >>, << >>, << >>, 0, << >>, "")

\* A drawn version: the string, and how it was written.
Written(text, key) == [text |-> text, key |-> key]

Dot == <<".">>

Dash == <<"-">>

\* Family "order": any three versions of the pool, under the generic, the
\* nuget and the maven ordering.
OrderSchemes == {Conan, Nuget, Maven}

OrderVersions == {Written(v, NoKey) : v \in VersionPool}

\* Family "generic": major[.minor[.patch]][-prerelease], written from its
\* numbers and its prerelease segments; a segment may be empty ("rc..1"),
\* which ParseVersion accepts.
NumberShapes == {<<1>>, <<2>>, <<1, 0>>, <<1, 3>>, <<2, 0>>, <<1, 0, 0>>, <<1, 3, 0>>, <<1, 3, 4>>}

PrereleaseShapes ==
  {<< >>, <<<<"r", "c">>>>, <<<<"r", "c">>, <<"1">>>>, <<<<"r", "c">>, <<"x">>>>,
   <<<<"r", "c">>, << >>, <<"1">>>>, <<<<"2">>>>, <<<<"1", "0">>>>, <<<<"1", "a">>>>}

WriteGeneric(numbers, segments) ==
  StrJoin([k \in DOMAIN numbers |-> Itoa(numbers[k])], Dot)
    \o (IF segments = << >> THEN << >> ELSE Dash \o StrJoin(segments, Dot))

GenericVersions ==
  {Written(WriteGeneric(numbers, segments), Key(numbers, segments, << >>, 0, << >>, "")) :
     numbers \in NumberShapes, segments \in PrereleaseShapes}

\* Family "qualifier": a base version with one link of the maven qualifier
\* chain; the key is the base and the place in the chain (8 for a qualifier
\* the table does not have, 9 for a positive number).
QualifierBases == {<<"1">>, V1_0, <<"1", ".", "2", ".", "3">>}

QualifierChain ==
  {<<1, mavenQualifierOrder[1]>>, <<2, mavenQualifierOrder[2]>>, <<3, mavenQualifierOrder[3]>>,
   <<4, mavenQualifierOrder[4]>>, <<5, mavenQualifierOrder[5]>>, <<6, << >>>>,
   <<7, mavenQualifierOrder[7]>>, <<8, <<"b", "a", "r">>>>, <<8, <<"f", "o", "o">>>>,
   <<8, <<"x">>>>, <<9, <<"1">>>>, <<9, <<"7">>>>}

QualifierVersions ==
  {Written(base \o (IF link[2] = << >> THEN << >> ELSE Dash \o link[2]),
           Key(<< >>, << >>, base, link[1], link[2], "")) :
     base \in QualifierBases, link \in QualifierChain}

\* Family "equal": a base, trailing zero components and one writing of a
\* qualifier; the key is the base and the qualifier the writing stands for
\* ("more" for a further positive numeric component).
EqualBases == {<<"1">>, <<"1", ".", "2">>}

TrailingZeros == {<< >>, <<".", "0">>, <<".", "0", ".", "0">>}

QualifierWritings ==
  {<<"", << >>>>, <<"", <<"-", "g", "a">>>>, <<"", <<"-", "f", "i", "n", "a", "l">>>>,
   <<"", <<"-", "r", "e", "l", "e", "a", "s", "e">>>>, <<"", <<"-", "G", "A">>>>,
   <<"rc1", <<"-", "r", "c", "1">>>>, <<"rc1", <<"-", "c", "r", "1">>>>,
   <<"rc1", <<"-", "R", "C", "1">>>>,
   <<"alpha1", <<"-", "a", "1">>>>, <<"alpha1", <<"-", "a", "l", "p", "h", "a", "-", "1">>>>,
   <<"alpha1", <<"-", "A", "l", "p", "h", "a", "1">>>>,
   <<"beta2", <<"-", "b", "2">>>>, <<"beta2", <<"-", "b", "e", "t", "a", "-", "2">>>>,
   <<"milestone3", <<"-", "m", "3">>>>,
   <<"milestone3", <<"-", "m", "i", "l", "e", "s", "t", "o", "n", "e", "-", "3">>>>,
   <<"foo", <<"-", "f", "o", "o">>>>, <<"foo", <<"-", "F", "o", "o">>>>,
   <<"more", <<".", "1">>>>, <<"more", <<"-", "1">>>>}

EqualVersions ==
  {Written(base \o zeros \o writing[2], Key(<< >>, << >>, base, 0, << >>, writing[1])) :
     base \in EqualBases, zeros \in TrailingZeros, writing \in QualifierWritings}

\* A trial before the comparison.
NewTrial(family, scheme, a, b, c) ==
  [family |-> family, scheme |-> scheme, a |-> a, b |-> b, c |-> c,
   fn |-> "none", aa |-> 0, ab |-> 0, ba |-> 0, bc |-> 0, ac |-> 0]

CompareInit ==
  /\ trial \in {NewTrial("order", scheme, a, b, c) :
                  scheme \in OrderSchemes, a \in OrderVersions, b \in OrderVersions,
                  c \in OrderVersions}
                 \cup {NewTrial("generic", Conan, a, b, a) :
                         a \in GenericVersions, b \in GenericVersions}
                 \cup {NewTrial("qualifier", Maven, a, b, a) :
                         a \in QualifierVersions, b \in QualifierVersions}
                 \cup {NewTrial("equal", Maven, a, b, a) :
                         a \in EqualVersions, b \in EqualVersions}
  /\ heap = << >>
  /\ last = NoCall
  /\ cache = NoCache
  /\ calls = NoCalls
  /\ ask = NoAsk
  /\ job = NoJob

\* The pairs of strings a trial compares: (a,a), (a,b), (b,a), (b,c), (a,c).
TrialPairs ==
  <<<<trial.a.text, trial.a.text>>, <<trial.a.text, trial.b.text>>,
    <<trial.b.text, trial.a.text>>, <<trial.b.text, trial.c.text>>,
    <<trial.a.text, trial.c.text>>>>

\* The trial after fn returned results for its pairs.
Compared(fn, results) ==
  /\ trial' = [trial EXCEPT !.fn = fn, !.aa = results[1], !.ab = results[2],
                            !.ba = results[3], !.bc = results[4], !.ac = results[5]]
  /\ UNCHANGED <<cache, calls, heap, last, ask, job>>

\* Compare(x, y) for each pair
DoCompare ==
  /\ trial.fn = "none"
  /\ trial.family \in {"order", "generic"}
  /\ trial.scheme = Conan
  /\ Compared("Compare",
              [k \in DOMAIN TrialPairs |-> CompareVersions(TrialPairs[k][1], TrialPairs[k][2])])

\* vx.Compare(vy) for each pair, on the versions ParseVersion returns
DoVersionCompare ==
  /\ trial.fn = "none"
  /\ trial.family = "generic"
  /\ LET parsed == ParseEach(<<trial.a.text, trial.b.text>>)
         pairs == <<<<1, 1>>, <<1, 2>>, <<2, 1>>, <<2, 1>>, <<1, 1>>>>
     IN /\ \A k \in DOMAIN parsed : ~parsed[k].err
        /\ Compared("VersionInfo.Compare",
                    [k \in DOMAIN pairs |->
                       VersionCompare(parsed[pairs[k][1]], parsed[pairs[k][2]])])

\* CompareWithScheme(x, y, trial.scheme) for each pair
DoCompareWithScheme ==
  /\ trial.fn = "none"
  /\ Compared("CompareWithScheme",
              [k \in DOMAIN TrialPairs |->
                 CompareWithScheme(TrialPairs[k][1], TrialPairs[k][2], trial.scheme)])

CompareNext == DoCompare \/ DoVersionCompare \/ DoCompareWithScheme

SpecCompare == CompareInit /\ [][CompareNext]_vars

(***************************************************************************)
(* Specification SpecInterval: Interval.Intersect, Interval.Union and      *)
(* mergeIntervals applied to drawn lists of intervals                      *)
(***************************************************************************)

\* The bounds of the drawn pairs of intervals: absent, two releases, and
\* three prereleases of the first.
PairBounds == {<< >>, V1_0, V1_5, V1_0p2, V1_0p10, V1_0p1a}

\* Every Interval value over these bounds.
PairIntervals ==
  {NewInterval(min, max, minInclusive, maxInclusive) :
     min \in PairBounds, max \in PairBounds, minInclusive \in BOOLEAN, maxInclusive \in BOOLEAN}

\* The intervals of the drawn lists of three: empty, unbounded, half-bounded,
\* exact, and bounded ones that overlap, touch or lie apart.
ListIntervals ==
  {EmptyInterval, UnboundedInterval, ExactInterval(V1_5),
   LessThanInterval(V1_0, TRUE), LessThanInterval(V1_5, FALSE),
   GreaterThanInterval(V2_0, FALSE), GreaterThanInterval(V1_5, TRUE),
   NewInterval(V1_0, V1_5, TRUE, TRUE), NewInterval(V1_0, V1_5, TRUE, FALSE),
   NewInterval(V1_5, V2_0, TRUE, TRUE), NewInterval(V1_5, V2_0, FALSE, TRUE),
   NewInterval(V2_0, V3_0, TRUE, TRUE), NewInterval(V1_0, V2_0, FALSE, FALSE)}

\* A call on a list of intervals that has not been made yet.
NewList(intervals) == [list |-> intervals, op |-> "none", nil |-> FALSE, intervals |-> << >>]

IntervalInit ==
  /\ ask \in {NewList(<<a, b>>) : a \in PairIntervals, b \in PairIntervals}
            \cup {NewList(<<a, b, c>>) : a \in ListIntervals, b \in ListIntervals, c \in ListIntervals}
  /\ heap = << >>
  /\ last = NoCall
  /\ cache = NoCache
  /\ calls = NoCalls
  /\ job = NoJob
  /\ trial = NoTrial

\* ask.list[1].Intersect(ask.list[2])
DoIntervalIntersect ==
  /\ ask.op = "none"
  /\ Len(ask.list) = 2
  /\ ask' = [ask EXCEPT !.op = "Interval.Intersect", !.nil = FALSE,
                        !.intervals = <<IntervalIntersect(ask.list[1], ask.list[2])>>]
  /\ UNCHANGED <<cache, calls, heap, last, job, trial>>

\* ask.list[1].Union(ask.list[2]): nil, or a pointer to the united interval
DoIntervalUnion ==
  /\ ask.op = "none"
  /\ Len(ask.list) = 2
  /\ LET returned(union) ==
           ask' = [ask EXCEPT !.op = "Interval.Union", !.nil = union.nil,
                              !.intervals = IF union.nil THEN << >> ELSE <<union.iv>>]
     IN returned(IntervalUnion(ask.list[1], ask.list[2]))
  /\ UNCHANGED <<cache, calls, heap, last, job, trial>>

\* mergeIntervals(ask.list)
DoMergeIntervals ==
  /\ ask.op = "none"
  /\ ask' = [ask EXCEPT !.op = "mergeIntervals", !.nil = FALSE,
                        !.intervals = mergeIntervals(ask.list)]
  /\ UNCHANGED <<cache, calls, heap, last, job, trial>>

IntervalNext == DoIntervalIntersect \/ DoIntervalUnion \/ DoMergeIntervals

SpecInterval == IntervalInit /\ [][IntervalNext]_vars

(***************************************************************************)
(* Specification SpecCache: goroutines call ParseVersion concurrently on   *)
(* the shared versionCache                                                 *)
(***************************************************************************)

CacheInit ==
  /\ cache = NoCache
  /\ calls = NoCalls
  /\ heap = << >>
  /\ last = NoCall
  /\ ask = NoAsk
  /\ job = NoJob
  /\ trial = NoTrial

\* len(c.items)
CacheLen(items) == Cardinality({key \in CacheKeys : items[key].present})

\* v, ok := c.items[key], for an entry of some key whatever the key asked for.
lookupAnyEntry(items, key) ==
  IF \E other \in CacheKeys : items[other].present
  THEN items[CHOOSE other \in CacheKeys : items[other].present]
  ELSE NoEntry

\* v, ok := c.items[key]
lookup(items, key) == items[key]

\* if len(c.items) > c.max { c.items = make(...) }, a later wipe.
wipeWhenOverFull(items) == IF CacheLen(items) > CacheMax THEN NoItems ELSE items

\* if len(c.items) >= c.max { c.items = make(map[string]*VersionInfo) }
wipeWhenFull(items) == IF CacheLen(items) >= CacheMax THEN NoItems ELSE items

\* The step of goroutine g to the program counter pc with its locals changed.
Step(g, next) ==
  /\ calls' = [calls EXCEPT ![g] = next]
  /\ UNCHANGED <<heap, last, ask, job, trial>>

\* ParseVersion(s) is called: the empty string is refused at once.
CallParseVersion(g) ==
  /\ calls[g].pc = "idle"
  /\ \E s \in CacheKeys :
       Step(g, IF s = << >>
               THEN [Idle EXCEPT !.pc = "returned", !.ret = InvalidVersion(s)]
               ELSE [Idle EXCEPT !.pc = "Load.RLock", !.s = s])
  /\ UNCHANGED cache

\* Load: c.mu.RLock(), which waits while a writer holds the mutex
LoadRLock(g) ==
  /\ calls[g].pc = "Load.RLock"
  /\ cache.writer = "none"
  /\ cache' = [cache EXCEPT !.readers = @ \cup {g}]
  /\ Step(g, [calls[g] EXCEPT !.pc = "Load.read"])

\* Load: v, ok := c.items[key]
LoadRead(g) ==
  /\ calls[g].pc = "Load.read"
  /\ Step(g, [calls[g] EXCEPT !.pc = "Load.RUnlock", !.cached = lookup(cache.items, calls[g].s)])
  /\ UNCHANGED cache

\* Load: c.mu.RUnlock() and return; ParseVersion returns cached when ok
LoadRUnlock(g) ==
  /\ calls[g].pc = "Load.RUnlock"
  /\ cache' = [cache EXCEPT !.readers = @ \ {g}]
  /\ Step(g, IF calls[g].cached.present
             THEN [calls[g] EXCEPT !.pc = "returned", !.hit = TRUE, !.ret = calls[g].cached.v]
             ELSE [calls[g] EXCEPT !.pc = "parse"])

\* ParseVersion after a miss: parse s; an error is returned and not stored
ParseMissed(g) ==
  /\ calls[g].pc = "parse"
  /\ LET parsed(v) == IF v.err THEN [calls[g] EXCEPT !.pc = "returned", !.ret = v]
                      ELSE [calls[g] EXCEPT !.pc = "Store.Lock", !.v = v]
     IN Step(g, parsed(ParseVersion(calls[g].s)))
  /\ UNCHANGED cache

\* Store: c.mu.Lock(), which waits for the writer and every reader to leave
StoreLock(g) ==
  /\ calls[g].pc = "Store.Lock"
  /\ cache.writer = "none"
  /\ cache.readers = {}
  /\ cache' = [cache EXCEPT !.writer = g]
  /\ Step(g, [calls[g] EXCEPT !.pc = "Store.wipe"])

\* Store: if len(c.items) >= c.max { c.items = make(map[string]*VersionInfo) }
StoreWipe(g) ==
  /\ calls[g].pc = "Store.wipe"
  /\ LET wiped(items) ==
           /\ cache' = [cache EXCEPT !.items = items,
                                     !.stored = IF items # cache.items THEN {} ELSE @,
                                     !.wiped = @ \/ items # cache.items]
           /\ Step(g, [calls[g] EXCEPT !.pc = "Store.insert",
                                       !.full = CacheLen(cache.items) >= CacheMax])
     IN wiped(wipeWhenFull(cache.items))

\* Store: c.items[key] = value
StoreInsert(g) ==
  /\ calls[g].pc = "Store.insert"
  /\ cache' = [cache EXCEPT !.items[calls[g].s] = [present |-> TRUE, v |-> calls[g].v],
                            !.stored = @ \cup {calls[g].s}]
  /\ Step(g, [calls[g] EXCEPT !.pc = "Store.Unlock"])

\* Store: c.mu.Unlock() and return; ParseVersion returns v
StoreUnlock(g) ==
  /\ calls[g].pc = "Store.Unlock"
  /\ cache' = [cache EXCEPT !.writer = "none"]
  /\ Step(g, [calls[g] EXCEPT !.pc = "returned", !.ret = calls[g].v])

\* The caller has the result; the goroutine may call again.
Leave(g) ==
  /\ calls[g].pc = "returned"
  /\ Step(g, Idle)
  /\ UNCHANGED cache

CacheNext ==
  \E g \in Goroutines :
    \/ CallParseVersion(g) \/ LoadRLock(g) \/ LoadRead(g) \/ LoadRUnlock(g) \/ ParseMissed(g)
    \/ StoreLock(g) \/ StoreWipe(g) \/ StoreInsert(g) \/ StoreUnlock(g) \/ Leave(g)

SpecCache == CacheInit /\ [][CacheNext]_vars

(***************************************************************************)
(* Properties of the combinators (specification Spec)                      *)
(***************************************************************************)

\* The set of elements of a list.
ToSet(seq) == {seq[k] : k \in DOMAIN seq}

\* The operands and the result of the last combinator call.
Recv == heap[last.recv]

Arg == heap[last.arg]

Out == heap[last.out]

\* C4: a.Union(b) contains a version exactly when a or b contains it.
UnionContainsEither ==
  last.op = "Union" =>
    \A v \in VersionPool :
      RangeContains(Out, v) <=> (RangeContains(Recv, v) \/ RangeContains(Arg, v))

\* C5: a.Intersect(b) contains a version exactly when a and b both contain it.
IntersectContainsBoth ==
  last.op = "Intersect" =>
    \A v \in VersionPool :
      RangeContains(Out, v) <=> (RangeContains(Recv, v) /\ RangeContains(Arg, v))

\* C6 as stated: the exclusions of a.Union(b) are, as a set, the intersection
\* of the exclusions of a and of b, whatever the operands.
UnionExclusionsIntersectAlways ==
  last.op = "Union" => ToSet(Out.Exclusions) = ToSet(Recv.Exclusions) \cap ToSet(Arg.Exclusions)

\* C6 amended: when neither operand IsEmpty, the exclusions of a.Union(b) are,
\* as a set of strings, the intersection of the exclusions of a and of b; when
\* a IsEmpty the result is b itself, and otherwise when b IsEmpty it is a
\* itself, each with all of its own exclusions.
UnionExclusionsIntersect ==
  last.op = "Union" =>
    IF RangeIsEmpty(Recv) THEN last.out = last.arg
    ELSE IF RangeIsEmpty(Arg) THEN last.out = last.recv
    ELSE /\ last.out \notin {last.recv, last.arg}
         /\ ToSet(Out.Exclusions) = ToSet(Recv.Exclusions) \cap ToSet(Arg.Exclusions)

\* C6 witness: a union of two non-empty ranges whose exclusion lists differ
\* and share a version, and a union with an empty operand that has exclusions
\* on the other side are both reached; this is the first.
UnionOfDifferentExclusions ==
  /\ last.op = "Union"
  /\ ~RangeIsEmpty(Recv) /\ ~RangeIsEmpty(Arg)
  /\ ToSet(Recv.Exclusions) # ToSet(Arg.Exclusions)
  /\ Out.Exclusions # << >>
  /\ ToSet(Out.Exclusions) # ToSet(Recv.Exclusions)

\* C7: Union with Empty() and Intersect with Unbounded(), in either operand
\* order, give a range with the Contains of the other operand.
IdentityOperands ==
  /\ (last.op = "Union" /\ Arg = Empty) => \A v \in VersionPool : RangeContains(Out, v) <=> RangeContains(Recv, v)
  /\ (last.op = "Union" /\ Recv = Empty) => \A v \in VersionPool : RangeContains(Out, v) <=> RangeContains(Arg, v)
  /\ (last.op = "Intersect" /\ Arg = Unbounded) => \A v \in VersionPool : RangeContains(Out, v) <=> RangeContains(Recv, v)
  /\ (last.op = "Intersect" /\ Recv = Unbounded) => \A v \in VersionPool : RangeContains(Out, v) <=> RangeContains(Arg, v)

\* C8: a combinator call leaves every Range that existed before it as it was,
\* and r.Exclude(v) returns a Range with r's intervals and r's exclusions
\* followed by v.
CombinatorsDoNotMutate ==
  [][ /\ \A p \in DOMAIN heap : p \in DOMAIN heap' /\ heap'[p] = heap[p]
      /\ last'.op = "Exclude" =>
            heap'[last'.out] = MkRange(heap[last'.recv].Intervals,
                                       Append(heap[last'.recv].Exclusions, last'.ver)) ]_vars

\* C8 witness: Exclude was applied to a Range that already had exclusions,
\* and the receiver still has exactly those.
ExcludedFromRangeWithExclusions ==
  /\ last.op = "Exclude"
  /\ Recv.Exclusions # << >>
  /\ Out.Exclusions = Append(Recv.Exclusions, last.ver)
  /\ last.out # last.recv

(***************************************************************************)
(* Properties of Contains (specification SpecContains)                     *)
(***************************************************************************)

\* x satisfies the minimum of I, by direct inspection of the bound.
SatisfiesMin(I, x) ==
  I.Min = << >> \/ (IF I.MinInclusive THEN CompareVersions(x, I.Min) >= 0
                    ELSE CompareVersions(x, I.Min) > 0)

\* x satisfies the maximum of I, by direct inspection of the bound.
SatisfiesMax(I, x) ==
  I.Max = << >> \/ (IF I.MaxInclusive THEN CompareVersions(x, I.Max) <= 0
                    ELSE CompareVersions(x, I.Max) < 0)

\* The interval the last Interval.Contains was called on.
Asked == ask.range.Intervals[ask.k]

\* C1: r.Contains(v) is true exactly when v compares equal to no exclusion
\* of r and some interval of r contains v.
RangeContainsIff ==
  ask.op = "Range.Contains" =>
    (ask.result <=>
       /\ \A e \in DOMAIN ask.range.Exclusions :
            CompareVersions(ask.version, ask.range.Exclusions[e]) # 0
       /\ \E k \in DOMAIN ask.range.Intervals :
            IntervalContains(ask.range.Intervals[k], ask.version))

\* C1 witness: Contains answered false for a version that an interval of the
\* range contains and that equals an exclusion written differently.
RangeExcludesEqualVersion ==
  /\ ask.op = "Range.Contains"
  /\ ~ask.result
  /\ \E k \in DOMAIN ask.range.Intervals : IntervalContains(ask.range.Intervals[k], ask.version)
  /\ \E e \in DOMAIN ask.range.Exclusions :
       /\ ask.range.Exclusions[e] # ask.version
       /\ CompareVersions(ask.version, ask.range.Exclusions[e]) = 0

\* C2: I.Contains(x) is false when I.IsEmpty(), true when both bounds are
\* absent, and otherwise true exactly when x satisfies each present bound:
\* x >= Min (x > Min when MinInclusive is false) and x <= Max (x < Max when
\* MaxInclusive is false).
IntervalContainsByBounds ==
  ask.op = "Interval.Contains" =>
    (ask.result <=>
       IF IntervalIsEmpty(Asked) THEN FALSE
       ELSE IF Asked.Min = << >> /\ Asked.Max = << >> THEN TRUE
       ELSE SatisfiesMin(Asked, ask.version) /\ SatisfiesMax(Asked, ask.version))

\* C2 witness: Contains answered false for a version that is at the exclusive
\* minimum of a non-empty interval with both bounds, and below its maximum.
AtExclusiveMinimum ==
  /\ ask.op = "Interval.Contains"
  /\ ~ask.result
  /\ ~IntervalIsEmpty(Asked)
  /\ Asked.Min # << >> /\ Asked.Max # << >> /\ ~Asked.MinInclusive
  /\ CompareVersions(ask.version, Asked.Min) = 0
  /\ CompareVersions(ask.version, Asked.Max) < 0

(***************************************************************************)
(* Properties of the parser (specification SpecParse)                      *)
(***************************************************************************)

\* The first call of the job has returned a range.
HasRange ==
  job.stage \in {"parsed", "rendered", "reparsed"} /\ ~job.result.err /\ ~IsNil(job.result)

\* Membership decided on the bounds and exclusions of r with the ordering of
\* the scheme.
ContainsByScheme(r, v, scheme) ==
  /\ \A k \in DOMAIN r.Exclusions : CompareWithScheme(v, r.Exclusions[k], scheme) # 0
  /\ \E k \in DOMAIN r.Intervals :
       /\ \/ r.Intervals[k].Min = << >>
          \/ CompareWithScheme(v, r.Intervals[k].Min, scheme) > 0
          \/ r.Intervals[k].MinInclusive
               /\ CompareWithScheme(v, r.Intervals[k].Min, scheme) = 0
       /\ \/ r.Intervals[k].Max = << >>
          \/ CompareWithScheme(v, r.Intervals[k].Max, scheme) < 0
          \/ r.Intervals[k].MaxInclusive
               /\ CompareWithScheme(v, r.Intervals[k].Max, scheme) = 0

\* C3: a range obtained from ParseNative or Parse for a scheme contains a
\* version exactly when the version passes the range's bounds and exclusions
\* under CompareWithScheme for that scheme.
ContainsUsesSchemeOrdering ==
  HasRange
    => \A v \in QueryPool :
         RangeContains(job.result.range, v) = ContainsByScheme(job.result.range, v, job.scheme)

\* C9: when ParseNative accepted the constraint, parsing the rendered vers
\* URI succeeds and gives a range that contains the same versions.
RoundTripKeepsContains ==
  (job.kind = "native" /\ job.stage = "reparsed")
    => /\ ~job.back.err
       /\ \A v \in QueryPool :
            RangeContains(job.back.range, v) = RangeContains(job.result.range, v)

\* v satisfies the clause c under the generic ordering.
Satisfies(v, c) ==
  CASE c.op = OpGt -> CompareVersions(v, c.version) > 0
    [] c.op = OpGe -> CompareVersions(v, c.version) >= 0
    [] c.op = OpLt -> CompareVersions(v, c.version) < 0
    [] c.op = OpLe -> CompareVersions(v, c.version) <= 0

\* Parse has returned for a vers URI of two clauses, one supplying only a
\* lower bound and the other only an upper bound, in either order.
BoundPair ==
  /\ job.kind = "uri"
  /\ job.stage # "new"
  /\ Len(job.clauses) = 2
  /\ \E k \in 1..2 : job.clauses[k].op \in {OpGt, OpGe} /\ job.clauses[3 - k].op \in {OpLt, OpLe}

\* The two bounds of the pair meet: the lower bound version is below the
\* upper bound version, or they compare equal and both clauses are inclusive.
BoundsMeet ==
  LET lower == IF job.clauses[1].op \in {OpGt, OpGe} THEN job.clauses[1] ELSE job.clauses[2]
      upper == IF job.clauses[1].op \in {OpGt, OpGe} THEN job.clauses[2] ELSE job.clauses[1]
  IN \/ CompareVersions(lower.version, upper.version) < 0
     \/ CompareVersions(lower.version, upper.version) = 0 /\ lower.op = OpGe /\ upper.op = OpLe

HasCompared == trial.fn \in {"Compare", "VersionInfo.Compare", "CompareWithScheme"}

\* C11: Compare, and CompareWithScheme under every scheme, is transitive: for
\* all versions a, b and c, when Compare(a, b) <= 0 and Compare(b, c) <= 0
\* then Compare(a, c) <= 0, also for versions whose prerelease segments mix
\* numeric and alphanumeric segments.
CompareIsTransitive ==
  (trial.family = "order" /\ HasCompared /\ trial.ab <= 0 /\ trial.bc <= 0)
    => trial.ac <= 0

\* The sign of x - y.
Sign(x, y) == IF x < y THEN -1 ELSE IF x > y THEN 1 ELSE 0

\* (major, minor, patch) of written numbers, an absent component counted as 0.
Triple(numbers) == [k \in 1..3 |-> IF k <= Len(numbers) THEN numbers[k] ELSE 0]

\* The lexicographic comparison of two triples.
TripleOrder(x, y) ==
  IF x[1] # y[1] THEN Sign(x[1], y[1])
  ELSE IF x[2] # y[2] THEN Sign(x[2], y[2])
  ELSE Sign(x[3], y[3])

\* Two segments: numerically when both are integers, else as strings.
SegmentOrder(x, y) ==
  IF AllDigits(x) /\ AllDigits(y) THEN Sign(NatOf(x), NatOf(y))
  ELSE IF x = y THEN 0
  ELSE IF StrLess(x, y) THEN -1 ELSE 1

\* Two segment lists, segment by segment; a list that ends first is less.
RECURSIVE SegmentsOrder(_, _)
SegmentsOrder(x, y) ==
  IF x = << >> /\ y = << >> THEN 0
  ELSE IF x = << >> THEN -1
  ELSE IF y = << >> THEN 1
  ELSE IF SegmentOrder(Head(x), Head(y)) # 0 THEN SegmentOrder(Head(x), Head(y))
  ELSE SegmentsOrder(Tail(x), Tail(y))

\* The order the generic scheme gives two written versions.
GenericOrder(x, y) ==
  IF TripleOrder(Triple(x.numbers), Triple(y.numbers)) # 0
    THEN TripleOrder(Triple(x.numbers), Triple(y.numbers))
  ELSE IF x.segments = << >> /\ y.segments = << >> THEN 0
  ELSE IF x.segments = << >> THEN 1
  ELSE IF y.segments = << >> THEN -1
  ELSE SegmentsOrder(x.segments, y.segments)

\* C12: under the generic scheme Compare(v, v) is 0, and Compare(a, b) is the
\* lexicographic comparison of (major, minor, patch) with absent components
\* counted as 0; when the triples tie, a version without prerelease is
\* greater than one with a prerelease, and two prereleases compare segment by
\* segment, a shorter segment list being less.
GenericCompareAsSpecified ==
  (trial.family = "generic" /\ HasCompared)
    => /\ trial.aa = 0
       /\ trial.ab = GenericOrder(trial.a.key, trial.b.key)
       /\ trial.ba = GenericOrder(trial.b.key, trial.a.key)

\* The order the maven qualifier chain gives two versions of the same base:
\* by place in the chain, and lexicographically between two qualifiers the
\* table does not have.
ChainOrder(x, y) ==
  IF x.place # y.place THEN Sign(x.place, y.place)
  ELSE IF x.word = y.word THEN 0
  ELSE IF StrLess(x.word, y.word) THEN -1 ELSE 1

\* C13: under the maven scheme, for the same base version V,
\* V-alpha < V-beta < V-milestone < V-rc < V-snapshot < V < V-sp
\* < V-<unrecognized qualifier> < V-<positive number>, unrecognized qualifiers
\* ordered lexicographically among themselves, and CompareWithScheme returns
\* the matching sign for every pair of the chain.
MavenQualifierChain ==
  (/\ trial.family = "qualifier"
   /\ HasCompared
   /\ trial.a.key.base = trial.b.key.base
   /\ ~(trial.a.key.place = 9 /\ trial.b.key.place = 9 /\ trial.a.key.word # trial.b.key.word))
    => /\ trial.ab = ChainOrder(trial.a.key, trial.b.key)
       /\ trial.ba = ChainOrder(trial.b.key, trial.a.key)

\* CompareWithScheme put an unrecognized qualifier above sp and below a
\* positive number, on the same base.
ComparedUnrecognizedQualifier ==
  /\ trial.family = "qualifier"
  /\ trial.fn = "CompareWithScheme"
  /\ trial.scheme = Maven
  /\ trial.a.text = <<"1", ".", "2", ".", "3", "-", "f", "o", "o">>
  /\ trial.b.text \in {<<"1", ".", "2", ".", "3", "-", "s", "p">>,
                       <<"1", ".", "2", ".", "3", "-", "7">>}
  /\ trial.ab = (IF trial.b.key.place = 7 THEN 1 ELSE -1)

\* C14: under the maven scheme, versions that differ only by trailing zero
\* numeric components, by a ga/final/release qualifier, by the cr/rc alias,
\* by letter case, or by a/b/m against alpha/beta/milestone directly before a
\* number compare equal, and a version with a missing trailing component is
\* less than the same version with a positive numeric component there.
MavenEqualWritings ==
  (trial.family = "equal" /\ HasCompared /\ trial.a.key.base = trial.b.key.base)
    => /\ (trial.a.key.name = trial.b.key.name /\ trial.a.key.name # "more")
            => (trial.ab = 0 /\ trial.ba = 0)
       /\ (trial.a.key.name = "" /\ trial.b.key.name = "more")
            => (trial.ab = -1 /\ trial.ba = 1)

\* CompareWithScheme returned 0 for a release written with trailing zeros and
\* the ga qualifier against the bare base, and for a1 against Alpha1.
ComparedEqualWritings ==
  /\ trial.family = "equal"
  /\ trial.fn = "CompareWithScheme"
  /\ trial.scheme = Maven
  /\ \/ /\ trial.a.text = <<"1", ".", "0", ".", "0", "-", "G", "A">>
        /\ trial.b.text = <<"1">>
     \/ /\ trial.a.text = <<"1", ".", "2", "-", "a", "1">>
        /\ trial.b.text = <<"1", ".", "2", ".", "0", "-", "A", "l", "p", "h", "a", "1">>
  /\ trial.ab = 0

(***************************************************************************)
(* Properties of the native translators (specification SpecParse)          *)
(***************************************************************************)

\* The versions asked of a caret or tilde range, as numbers.
NumberQueries == {<<major, minor, patch>> : major \in 0..2, minor \in {0, 1, 2, 3, 9},
                                           patch \in {0, 1, 3, 4, 9}}

\* X <= v < U on (major, minor, patch).
Within(v, X, U) == TripleOrder(Triple(X), v) <= 0 /\ TripleOrder(v, U) < 0

\* ParseNative has returned for a constraint of the given form.
Translated(form) == job.form = form /\ job.stage # "new"

\* The next breaking boundary above X.
CaretUpper(X) ==
  IF X[1] > 0 THEN <<X[1] + 1, 0, 0>>
  ELSE IF X[2] > 0 THEN <<0, X[2] + 1, 0>>
  ELSE <<0, 0, X[3] + 1>>

\* C15: for npm and cargo, ParseNative("^X") with X = M.m.p contains v exactly
\* when X <= v < U, where U is (M+1).0.0 if M > 0, else 0.(m+1).0 if m > 0,
\* else 0.0.(p+1).
CaretContainsToNextBreaking ==
  Translated("caret") =>
    /\ HasRange
    /\ \A v \in NumberQueries :
         RangeContains(job.result.range, WriteNumbers(v))
           <=> Within(v, job.numbers, CaretUpper(job.numbers))

\* ParseNative has read ^0.0.3 into a range that contains 0.0.3 and not 0.0.4.
ParsedCaretOfPatch ==
  /\ Translated("caret")
  /\ HasRange
  /\ job.text = <<"^", "0", ".", "0", ".", "3">>
  /\ RangeContains(job.result.range, <<"0", ".", "0", ".", "3">>)
  /\ ~RangeContains(job.result.range, <<"0", ".", "0", ".", "4">>)

\* The upper bound of a tilde range: the next minor when X states a minor,
\* the next major for a bare major.
TildeUpper(X) == IF Len(X) = 1 THEN <<X[1] + 1, 0, 0>> ELSE <<X[1], X[2] + 1, 0>>

\* C16: for npm and cargo, a tilde range that states a minor component,
\* ~M.m.p or ~M.m, contains v exactly when M.m.p <= v < M.(m+1).0, also when
\* m and p are both 0; only a bare ~M extends to < (M+1).0.0.
TildeContainsToNextMinor ==
  Translated("tilde") =>
    /\ HasRange
    /\ \A v \in NumberQueries :
         RangeContains(job.result.range, WriteNumbers(v))
           <=> Within(v, job.numbers, TildeUpper(job.numbers))

\* The exclusive upper bound of ~> version: the next minor for a version of
\* three segments, else the next major.
PessimisticUpper(version) ==
  CASE version = V1_2 -> V2_0
    [] version = V1_2_5 -> <<"1", ".", "3">>
    [] version = V2_0 -> V3_0

\* v satisfies the clause c of a native list.
SatisfiesClause(v, c) ==
  CASE c.op = OpEq -> CompareVersions(v, c.version) = 0
    [] c.op = OpNe -> CompareVersions(v, c.version) # 0
    [] c.op = OpGt -> CompareVersions(v, c.version) > 0
    [] c.op = OpGe -> CompareVersions(v, c.version) >= 0
    [] c.op = OpLt -> CompareVersions(v, c.version) < 0
    [] c.op = OpLe -> CompareVersions(v, c.version) <= 0
    [] c.op = OpPessimistic -> /\ CompareVersions(v, c.version) >= 0
                               /\ CompareVersions(v, PessimisticUpper(c.version)) < 0

\* The versions asked of the range of a list.
ListQueries ==
  QueryPool \cup {V1_2, <<"1", ".", "2", ".", "4">>, V1_2_5, <<"1", ".", "3">>, <<"1", ".", "9">>}

\* ParseNative returned, for a list under one of the schemes, a range that
\* contains v exactly when v satisfies every clause of the list.
ListIsConjunction(schemes) ==
  (Translated("list") /\ job.scheme \in schemes) =>
    /\ HasRange
    /\ \A v \in ListQueries :
         RangeContains(job.result.range, v)
           <=> \A k \in DOMAIN job.listed : SatisfiesClause(v, job.listed[k])

\* C17: for gem and rubygems, a comma-separated constraint is the
\* intersection of its clauses in any position: the range contains v if and
\* only if v satisfies every clause, a clause being a plain comparison or a
\* pessimistic ~> clause, also when the ~> clause is the first one.
GemListIntersects == ListIsConjunction({Gem, Rubygems})

\* C18: for pypi, a comma-separated constraint with any number of clauses in
\* any order is their conjunction: the range contains v if and only if v
\* satisfies every clause.
PypiListIsConjunction == ListIsConjunction({Pypi})

\* C19: for go and golang, a comma-separated constraint is the intersection
\* of its clauses and a != clause becomes an exclusion: the range contains v
\* if and only if v satisfies every clause.
GoListIntersects == ListIsConjunction({Go, Golang})

(***************************************************************************)
(* Properties of Parse on malformed and special vers URIs (SpecParse)      *)
(***************************************************************************)

\* Parse has returned for a vers URI of the given form.
ParsedURI(form) == job.kind = "uri" /\ job.form = form /\ job.stage # "new"

\* C20: Parse(uri) returns an error, and no Range, when uri lacks the "vers:"
\* prefix, lacks the "/" after the scheme, has an empty scheme, or has a
\* clause that is an operator with no version; it returns the universal
\* range when the constraint part is "*" or empty; a scheme tag the library
\* does not know is never an error.
ParseRejectsMalformedURIs ==
  /\ \A form \in {"no prefix", "no slash", "no scheme", "no version"} :
       ParsedURI(form) => job.result = ParseError
  /\ ParsedURI("universal") =>
       /\ HasRange
       /\ RangeIsUnbounded(job.result.range)
       /\ \A v \in QueryPool : RangeContains(job.result.range, v)
  /\ ParsedURI("unknown scheme") => HasRange

\* Parse has returned an error for vers:npm/>=1.0.0|< and for vers:/*.
ParsedMalformedURI ==
  /\ job.kind = "uri"
  /\ job.stage = "parsed"
  /\ job.text \in {VersURI(Npm, OpGe \o V1_0_0 \o <<"|", "<">>), VersPrefix \o <<"/", "*">>}
  /\ job.result.err

(***************************************************************************)
(* Properties of the results of Parse and ParseNative (SpecParse)          *)
(***************************************************************************)

\* C21: for every scheme and every input, ParseNative and Parse return an
\* error or a Range that is not nil: no call reports success without a Range,
\* so Contains on a successful result never dereferences nil.
SuccessHasRange ==
  job.stage # "new" => (job.result.err \/ ~IsNil(job.result))

(***************************************************************************)
(* Properties of Range.IsUnbounded and Range.IsEmpty (SpecContains)        *)
(***************************************************************************)

\* The versions asked about when a range is examined as a whole.
Everywhere == VersionPool \cup {V0_9, V1_2, V3_0}

\* A lower-unbounded interval up and an upper-unbounded interval down leave no
\* version out when down starts below the end of up, or at it with the
\* meeting version inside one of them.
Meet(up, down) ==
  /\ up.Min = << >> /\ up.Max # << >>
  /\ down.Max = << >> /\ down.Min # << >>
  /\ \/ CompareVersions(down.Min, up.Max) < 0
     \/ CompareVersions(down.Min, up.Max) = 0 /\ (up.MaxInclusive \/ down.MinInclusive)

\* The intervals of r together contain every version.
CoversEveryVersion(r) ==
  \/ \E k \in DOMAIN r.Intervals : r.Intervals[k].Min = << >> /\ r.Intervals[k].Max = << >>
  \/ \E j, k \in DOMAIN r.Intervals : Meet(r.Intervals[j], r.Intervals[k])

\* C22: r.IsUnbounded() is true exactly when r matches all versions: false
\* when r has an exclusion, false when some version is not contained, and
\* true for every range without exclusions whose intervals together contain
\* every version, several intervals (<=2.0 with >=1.0) included.
IsUnboundedIffContainsAll ==
  ask.op = "Range.IsUnbounded" =>
    /\ Len(ask.range.Exclusions) > 0 => ~ask.result
    /\ (\E v \in Everywhere : ~RangeContains(ask.range, v)) => ~ask.result
    /\ (ask.range.Exclusions = << >> /\ CoversEveryVersion(ask.range)) => ask.result

\* No version is a member of interval I of r: I is empty, or I holds the
\* versions equal to one bound only and r excludes them.
NoMember(r, I) ==
  \/ I.Min # << >> /\ I.Max # << >> /\ CompareVersions(I.Min, I.Max) > 0
  \/ /\ I.Min # << >> /\ I.Max # << >> /\ CompareVersions(I.Min, I.Max) = 0
     /\ \/ ~I.MinInclusive \/ ~I.MaxInclusive
        \/ \E e \in DOMAIN r.Exclusions : CompareVersions(I.Min, r.Exclusions[e]) = 0

\* C23: r.IsEmpty() is true exactly when r contains no version: it is false
\* when some version is contained, and true when no interval of r has a
\* member, ranges whose only members are removed by exclusions included.
IsEmptyIffContainsNone ==
  ask.op = "Range.IsEmpty" =>
    /\ (\E v \in Everywhere : RangeContains(ask.range, v)) => ~ask.result
    /\ (\A k \in DOMAIN ask.range.Intervals : NoMember(ask.range, ask.range.Intervals[k]))
         => ask.result

(***************************************************************************)
(* Properties of Interval.Intersect, Interval.Union and mergeIntervals     *)
(* (specification SpecInterval)                                            *)
(***************************************************************************)

\* The intervals the last call was made on, and the interval it returned.
OperandA == ask.list[1]

OperandB == ask.list[2]

Returned1 == ask.intervals[1]

\* The bound the intersection must have on one side, as <<version,
\* inclusive>>: of the two present bounds the one that wins (the larger
\* minimum when sign is 1, the smaller maximum when sign is -1), at a tie
\* inclusive only if both are, and the other's when one is absent.
MeetBound(x, xInclusive, y, yInclusive, sign) ==
  IF x # << >> /\ y # << >>
  THEN (IF CompareVersions(x, y) * sign > 0 THEN <<x, xInclusive>>
        ELSE IF CompareVersions(x, y) * sign < 0 THEN <<y, yInclusive>>
        ELSE <<x, xInclusive /\ yInclusive>>)
  ELSE IF x # << >> THEN <<x, xInclusive>>
  ELSE IF y # << >> THEN <<y, yInclusive>>
  ELSE <<<< >>, FALSE>>

\* C26 (membership): a.Intersect(b).Contains(v) is true exactly when both
\* a.Contains(v) and b.Contains(v) are true.
IntersectContainsIffBoth ==
  ask.op = "Interval.Intersect" =>
    \A v \in Everywhere :
      IntervalContains(Returned1, v)
        <=> (IntervalContains(OperandA, v) /\ IntervalContains(OperandB, v))

\* C26 (bounds): the resulting Min is the larger of the two present Mins, the
\* resulting Max the smaller of the two present Maxes, a tie is inclusive
\* only if both are, an absent bound adopts the other interval's, and
\* intersecting with an empty interval yields an empty interval.
IntersectBounds ==
  ask.op = "Interval.Intersect" =>
    IF IntervalIsEmpty(OperandA) \/ IntervalIsEmpty(OperandB) THEN IntervalIsEmpty(Returned1)
    ELSE /\ <<Returned1.Min, Returned1.MinInclusive>>
              = MeetBound(OperandA.Min, OperandA.MinInclusive, OperandB.Min, OperandB.MinInclusive, 1)
         /\ <<Returned1.Max, Returned1.MaxInclusive>>
              = MeetBound(OperandA.Max, OperandA.MaxInclusive, OperandB.Max, OperandB.MaxInclusive, -1)

\* C27: in the output of mergeIntervals no two intervals overlap or are
\* adjacent: Interval.Union of any two distinct output intervals is nil.
MergedIntervalsAreApart ==
  ask.op = "mergeIntervals" =>
    \A j, k \in DOMAIN ask.intervals :
      j # k => IntervalUnion(ask.intervals[j], ask.intervals[k]).nil

\* C28 (mergeIntervals): a version is contained in some interval of the
\* output exactly when it is contained in some interval of the input.
MergeKeepsMembers ==
  ask.op = "mergeIntervals" =>
    \A v \in Everywhere :
      (\E k \in DOMAIN ask.intervals : IntervalContains(ask.intervals[k], v))
        <=> (\E k \in DOMAIN ask.list : IntervalContains(ask.list[k], v))

\* C28 (Interval.Union): whenever a.Union(b) is not nil the result contains
\* v exactly when a or b contains v.
UnionKeepsMembers ==
  (ask.op = "Interval.Union" /\ ~ask.nil) =>
    \A v \in Everywhere :
      IntervalContains(Returned1, v)
        <=> (IntervalContains(OperandA, v) \/ IntervalContains(OperandB, v))

(***************************************************************************)
(* Properties of the output of ToVersString (specification SpecParse)      *)
(***************************************************************************)

\* The clauses of the rendered vers URI: what follows "vers:<scheme>/", cut
\* at each "|".
RenderedClauses == StrSplit(Drop(job.uri, Len(VersPrefix) + Len(job.scheme) + 1), <<"|">>)

\* The version of a rendered clause: the clause without its operator.
RECURSIVE ClauseVersion(_)
ClauseVersion(clause) ==
  IF clause # << >> /\ Head(clause) \in {"<", ">", "=", "!"} THEN ClauseVersion(Tail(clause))
  ELSE clause

\* ToVersString has rendered a range that is neither universal nor empty.
RenderedClauseList ==
  /\ job.stage \in {"rendered", "reparsed"}
  /\ job.uri \notin {VersURI(job.scheme, <<"*">>), VersURI(job.scheme, << >>)}

\* C29: in the output of ToVersString for a range that is neither universal
\* nor empty the clauses, bounds and != exclusions alike, are in ascending
\* order of their versions: Compare(version_i, version_j) <= 0 for i < j.
RenderedClausesAscend ==
  RenderedClauseList =>
    \A i, j \in DOMAIN RenderedClauses :
      i < j => CompareVersions(ClauseVersion(RenderedClauses[i]),
                               ClauseVersion(RenderedClauses[j])) <= 0

(***************************************************************************)
(* Antisymmetry of the comparison (specification SpecCompare)              *)
(***************************************************************************)

\* C30: CompareWithScheme(a, b, s) = -CompareWithScheme(b, a, s) for every
\* scheme (generic, nuget, maven) and every pair of strings, strings that do
\* not parse and prereleases with empty or missing segments included.
CompareWithSchemeIsAntisymmetric ==
  trial.fn = "CompareWithScheme" => trial.ab = -trial.ba

(***************************************************************************)
(* Properties of the version cache (specification SpecCache)               *)
(***************************************************************************)

\* C24: memoization is unobservable under any interleaving of ParseVersion
\* calls and wipes: every cache hit for s returns exactly what a fresh parse
\* of s produces, and a key not stored since the last wipe is a miss.
MemoizationIsUnobservable ==
  \A g \in Goroutines :
    /\ (calls[g].pc = "Load.RUnlock" /\ calls[g].cached.present) =>
         /\ calls[g].s \in cache.stored
         /\ calls[g].cached.v = ParseVersion(calls[g].s)
    /\ calls[g].pc = "returned" => calls[g].ret = ParseVersion(calls[g].s)

\* C24 witness: after a wipe, a call returns a hit for the dashed version
\* while the other goroutine is inside Store.
HitAfterWipe ==
  \E g, h \in Goroutines :
    /\ cache.wiped
    /\ calls[g].pc = "returned" /\ calls[g].hit /\ calls[g].s = <<"x", "-", "1">>
    /\ calls[h].pc = "Store.insert"

\* The goroutines that hold the mutex for reading, and for writing, by
\* their place in Load and Store.
InLoad == {g \in Goroutines : calls[g].pc \in {"Load.read", "Load.RUnlock"}}

InStore == {g \in Goroutines : calls[g].pc \in {"Store.wipe", "Store.insert", "Store.Unlock"}}

\* C25: in every reachable state the cache has at most max entries; a Store
\* that arrives when it holds max entries discards them all before it
\* inserts; the stored key is present right after its Store; and no Load
\* runs at the same time as the clear-and-insert of a Store.
CacheIsBoundedAndExclusive ==
  /\ CacheLen(cache.items) <= CacheMax
  /\ \A g \in Goroutines :
       calls[g].pc = "Store.Unlock" =>
         /\ cache.items[calls[g].s] = [present |-> TRUE, v |-> calls[g].v]
         /\ calls[g].full => {key \in CacheKeys : cache.items[key].present} = {calls[g].s}
  /\ InStore # {} => (InLoad = {} /\ Cardinality(InStore) = 1)

\* C25 witness: a Store that found the cache full has wiped it and inserted
\* its key, while the other goroutine waits to Load.
StoredAfterWipe ==
  \E g, h \in Goroutines :
    /\ calls[g].pc = "Store.Unlock" /\ calls[g].full
    /\ calls[h].pc = "Load.RLock"

====
